---------------------------- MODULE Spec2Model ----------------------------
(***************************************************************************)
(* A model of the knockout-whist game server (src/src/knockout_whist):     *)
(* the room engine Game, the dispatch loop GameServer.handle_connection,   *)
(* Trick, Card, Player and GameAI.                                         *)
(*                                                                         *)
(* Conventions.                                                            *)
(*  - A Python str that the code takes apart or searches (a card string,   *)
(*    a suit sent by a client, the trump suit) is a sequence of            *)
(*    one-character strings; the suit glyphs are written S, H, D, C.       *)
(*    A card's own suit is one character.                                  *)
(*  - A participant is the index of its record in part: the index is the   *)
(*    Python object's identity, the record its dataclass fields.  Python   *)
(*    ==, in, index and remove on Player objects compare the fields        *)
(*    (RecEq, PEq), `is` compares indices.                                 *)
(*  - One server process is single-threaded asyncio: the code between two  *)
(*    asyncio.sleep calls of one handler is one action; a handler that     *)
(*    sleeps keeps its position in task[ws].pc while other sockets'        *)
(*    messages are handled.                                                *)
(*  - Time is counted in half seconds, the unit of the asyncio.sleep       *)
(*    arguments (0.5, 1, 2): task[ws].due is what is left of a sleep, Tick *)
(*    lets half a second pass, and no time passes while a sleep is due.    *)
(*    Handling a message takes no time and a message may arrive at any     *)
(*    time.                                                                *)
(*  - The server keeps one room; a session token is the index of its       *)
(*    session in sessions.  A message sent to a socket that has closed is  *)
(*    lost without an exception, and a socket is seen to close when its    *)
(*    handler is reading it.                                               *)
(***************************************************************************)
EXTENDS Integers, Sequences, FiniteSets, TLC

\* ------------------------------------------------------------------ bounds
\* Participants ever created in the room (create + join + addAI).
MaxSeats == 3

\* -------------------------------------------------------- program constants
MAX_PLAYERS == 21
FIRST_ROUND == 7
CARDS_PER_DECK == 52
\* The asyncio.sleep arguments, in half seconds.
AI_TRUMP_SLEEP == 2
AI_PLAY_SLEEP == 1
TRICK_SLEEP == 4
NEXT_TRICK_SLEEP == 2

WAITING == "waiting"
CALLING_TRUMPS == "calling_trumps"
PLAYING == "playing"
FINISHED == "finished"

\* None where the code holds a str or a Player.
NoneStr == <<"None">>
NoPlayer == 0

\* "♠♥♦♣", the string create_deck, choose_trump and handle_trump_selection use.
SUITS == <<"S", "H", "D", "C">>

Min2(a, b) == IF a < b THEN a ELSE b
Max2(a, b) == IF a > b THEN a ELSE b

\* --------------------------------------------------------------- Python str
\* `sub in s` for two strings: substring containment.
StrIn(sub, s) ==
    \E i \in 0..(Len(s) - Len(sub)) : SubSeq(s, i + 1, i + Len(sub)) = sub

Digits == <<"0", "1", "2", "3", "4", "5", "6", "7", "8", "9">>
IsDigit(ch) == \E d \in 1..10 : Digits[d] = ch
DigitVal(ch) == (CHOOSE d \in 1..10 : Digits[d] = ch) - 1

\* int(s) succeeds on a non-empty run of decimal digits (the inputs of the
\* model hold no sign, blank or underscore).
IsInt(s) == Len(s) > 0 /\ \A i \in 1..Len(s) : IsDigit(s[i])
RECURSIVE IntOf(_)
IntOf(s) ==
    IF Len(s) = 0 THEN 0
    ELSE 10 * IntOf(SubSeq(s, 1, Len(s) - 1)) + DigitVal(s[Len(s)])

\* ---------------------------------------------------------------- card.py
Card(s, r, i) == [suit |-> s, rank |-> r, inst |-> i]
\* dataclass equality of two Card objects: the fields suit and rank.
CardEq(c, d) == c.suit = d.suit /\ c.rank = d.rank

FaceOf(r) ==
    CASE r = 11 -> <<"J">> [] r = 12 -> <<"Q">> [] r = 13 -> <<"K">>
      [] r = 14 -> <<"A">> [] OTHER -> <<>>
RECURSIVE IntStr(_)
IntStr(n) ==
    IF n < 10 THEN <<Digits[n + 1]>>
    ELSE IntStr(n \div 10) \o <<Digits[(n % 10) + 1]>>
\* Card.__str__
CardStr(c) == (IF c.rank \in 11..14 THEN FaceOf(c.rank) ELSE IntStr(c.rank)) \o <<c.suit>>

FaceRank(s) ==
    CASE s = <<"J">> -> 11 [] s = <<"Q">> -> 12 [] s = <<"K">> -> 13
      [] s = <<"A">> -> 14 [] OTHER -> 0
\* Card.from_string raises (IndexError on "", KeyError on an unknown rank).
ParseFails(str) ==
    \/ Len(str) = 0
    \/ LET rs == SubSeq(str, 1, Len(str) - 1) IN ~IsInt(rs) /\ FaceRank(rs) = 0
\* Card.from_string: a new Card object (inst 0: no object of any deck).
FromString(str) ==
    LET rs == SubSeq(str, 1, Len(str) - 1) IN
    Card(str[Len(str)], IF IsInt(rs) THEN IntOf(rs) ELSE FaceRank(rs), 0)

\* --------------------------------------------------------------- player.py
HUMAN == "human"
AI == "ai"
\* suit_order of Player.sort_hand
SuitOrder(s) == CASE s = "D" -> 0 [] s = "C" -> 1 [] s = "H" -> 2 [] s = "S" -> 3
SortKeyLess(c, d) ==
    \/ SuitOrder(c.suit) < SuitOrder(d.suit)
    \/ SuitOrder(c.suit) = SuitOrder(d.suit) /\ c.rank < d.rank
\* list.sort is stable: insert each card after the cards that are not greater.
RECURSIVE InsertSorted(_, _)
InsertSorted(h, c) ==
    IF Len(h) = 0 \/ ~SortKeyLess(c, h[Len(h)]) THEN Append(h, c)
    ELSE Append(InsertSorted(SubSeq(h, 1, Len(h) - 1), c), h[Len(h)])
RECURSIVE SortHand(_)
SortHand(h) ==
    IF Len(h) = 0 THEN <<>>
    ELSE InsertSorted(SortHand(SubSeq(h, 1, Len(h) - 1)), h[Len(h)])

HandEq(h, g) == Len(h) = Len(g) /\ \A i \in 1..Len(h) : CardEq(h[i], g[i])
\* dataclass equality of two Player objects: same class and equal
\* (ws, name, hand, tricks_won).
RecEq(a, b) ==
    /\ a.kind = b.kind /\ a.ws = b.ws /\ a.name = b.name
    /\ a.tricks_won = b.tricks_won /\ HandEq(a.hand, b.hand)

\* ---------------------------------------------------------------- trick.py
\* A play is [player |-> participant, card |-> Card]; rec is the record of
\* each participant (Player fields), used by tuple equality in plays.index.
LedSuit(plays) == IF Len(plays) = 0 THEN "None" ELSE plays[1].card.suit
IsComplete(plays, n) == Len(plays) = n

PlayEq(rec, a, b) ==
    /\ (a.player = b.player \/ RecEq(rec[a.player], rec[b.player]))
    /\ CardEq(a.card, b.card)
\* plays.index(play): the first position holding an equal tuple.
PlaysIndex(rec, plays, i) ==
    CHOOSE j \in 1..Len(plays) :
        /\ PlayEq(rec, plays[j], plays[i])
        /\ \A k \in 1..(j - 1) : ~PlayEq(rec, plays[k], plays[i])
B2N(b) == IF b THEN 1 ELSE 0
\* The key of determine_winner's max; positions are 0-based in the code.
WinKey(rec, plays, trump, i) ==
    << B2N(<<plays[i].card.suit>> = trump),
       B2N(plays[i].card.suit = LedSuit(plays)),
       plays[i].card.rank,
       -(PlaysIndex(rec, plays, i) - 1) >>
\* Python's tuple order.
RECURSIVE LexLess(_, _)
LexLess(a, b) ==
    IF Len(a) = 0 \/ Len(b) = 0 THEN Len(a) < Len(b)
    ELSE IF a[1] # b[1] THEN a[1] < b[1]
    ELSE LexLess(Tail(a), Tail(b))
\* max that lets the latest of equal cards win
WinnerPosLatest(rec, plays, trump) ==
    CHOOSE i \in 1..Len(plays) :
        /\ \A j \in 1..Len(plays) :
               ~LexLess(SubSeq(WinKey(rec, plays, trump, i), 1, 3),
                        SubSeq(WinKey(rec, plays, trump, j), 1, 3))
        /\ \A j \in (i + 1)..Len(plays) :
               LexLess(SubSeq(WinKey(rec, plays, trump, j), 1, 3),
                       SubSeq(WinKey(rec, plays, trump, i), 1, 3))
\* max(plays, key=...): the first play no other play's key exceeds.
WinnerPos(rec, plays, trump) ==
    CHOOSE i \in 1..Len(plays) :
        /\ \A j \in 1..Len(plays) :
               ~LexLess(WinKey(rec, plays, trump, i), WinKey(rec, plays, trump, j))
        /\ \A j \in 1..(i - 1) :
               LexLess(WinKey(rec, plays, trump, j), WinKey(rec, plays, trump, i))
determine_winner(rec, plays, trump) == plays[WinnerPos(rec, plays, trump)].player


\* -------------------------------------------------------------- game_ai.py
\* min(cards, key=rank) and max(cards, key=rank): the first extreme element.
FirstMinRank(cs) ==
    cs[CHOOSE i \in 1..Len(cs) :
          /\ \A j \in 1..Len(cs) : cs[i].rank <= cs[j].rank
          /\ \A j \in 1..(i - 1) : cs[j].rank > cs[i].rank]
FirstMaxRank(cs) ==
    cs[CHOOSE i \in 1..Len(cs) :
          /\ \A j \in 1..Len(cs) : cs[i].rank >= cs[j].rank
          /\ \A j \in 1..(i - 1) : cs[j].rank < cs[i].rank]

RECURSIVE SuitCount(_, _)
SuitCount(hand, s) ==
    IF Len(hand) = 0 THEN 0
    ELSE SuitCount(Tail(hand), s) + (IF hand[1].suit = s THEN 1 ELSE 0)
RECURSIVE SuitStrength(_, _)
SuitStrength(hand, s) ==
    IF Len(hand) = 0 THEN 0
    ELSE SuitStrength(Tail(hand), s) + (IF hand[1].suit = s THEN hand[1].rank ELSE 0)
SuitScore(hand, s) == SuitCount(hand, s) * 10 + SuitStrength(hand, s)
\* GameAI.choose_trump: max over the suits in the order of "♠♥♦♣".
choose_trump(hand) ==
    LET i == CHOOSE i \in 1..4 :
                /\ \A j \in 1..4 : SuitScore(hand, SUITS[i]) >= SuitScore(hand, SUITS[j])
                /\ \A j \in 1..(i - 1) : SuitScore(hand, SUITS[j]) < SuitScore(hand, SUITS[i])
    IN <<SUITS[i]>>

\* GameAI._card_beats
card_beats(c1, c2, trump) ==
    IF <<c1.suit>> = trump /\ <<c2.suit>> # trump THEN TRUE
    ELSE IF <<c2.suit>> = trump /\ <<c1.suit>> # trump THEN FALSE
    ELSE IF c1.suit # c2.suit THEN FALSE
    ELSE c1.rank > c2.rank
\* _get_current_winning_card that takes the card led for the winning card
get_current_winning_card_led(plays, trump) == plays[1].card
\* GameAI._get_current_winning_card, for a non-empty trick.
RECURSIVE WinningCardFrom(_, _, _, _)
WinningCardFrom(plays, trump, i, best) ==
    IF i > Len(plays) THEN best
    ELSE WinningCardFrom(plays, trump, i + 1,
            IF card_beats(plays[i].card, best, trump) THEN plays[i].card ELSE best)
get_current_winning_card(plays, trump) == WinningCardFrom(plays, trump, 2, plays[1].card)

\* _get_playable_cards that lets the AI play any card of its hand
get_playable_cards_any(hand, plays) == hand
\* GameAI._get_playable_cards
get_playable_cards(hand, plays) ==
    IF Len(plays) = 0 THEN hand
    ELSE LET same == SelectSeq(hand, LAMBDA c : c.suit = LedSuit(plays))
         IN IF Len(same) > 0 THEN same ELSE hand
\* GameAI._lead_card; min() of an empty hand raises.
lead_card(hand, trump) ==
    LET non_trump == SelectSeq(hand, LAMBDA c : <<c.suit>> # trump)
        high == SelectSeq(non_trump, LAMBDA c : c.rank >= 12)
    IN IF Len(high) > 0 THEN FirstMaxRank(high)
       ELSE IF Len(non_trump) > 0 THEN FirstMinRank(non_trump)
       ELSE FirstMinRank(hand)
\* GameAI._follow_card
follow_card(playable, plays, trump) ==
    LET winning_card == get_current_winning_card(plays, trump)
        winning_cards == SelectSeq(playable, LAMBDA c : card_beats(c, winning_card, trump))
    IN IF Len(winning_cards) > 0 THEN FirstMinRank(winning_cards)
       ELSE FirstMinRank(playable)
\* GameAI.choose_card raises ValueError (min of an empty sequence) on an empty hand.
ChooseCardFails(hand) == Len(hand) = 0
choose_card(hand, plays, trump) ==
    IF Len(plays) = 0 THEN lead_card(hand, trump)
    ELSE follow_card(get_playable_cards(hand, plays), plays, trump)

\* ------------------------------------------------------------ deck and deal
\* calculate_required_decks that always asks for one deck
calculate_required_decks_one(round, n) == 1
\* Game.calculate_required_decks
calculate_required_decks(round, n) ==
    Max2(1, (round * n + CARDS_PER_DECK - 1) \div CARDS_PER_DECK)
\* Game.create_deck before the shuffle: num_decks times
\* [Card(suit, rank) for suit in "♠♥♦♣" for rank in range(2, 15)].
\* inst is the position of the object in that list: its identity.
FreshDeck(num_decks) ==
    [i \in 1..(num_decks * CARDS_PER_DECK) |->
        LET k == (i - 1) % CARDS_PER_DECK
        IN Card(SUITS[(k \div 13) + 1], (k % 13) + 2, i)]
\* random.shuffle: one of the permutations i -> i * stride + s (mod N), with
\* strides prime to every deck size of the model; and, for s = 0, the
\* permutation that spreads the 52 cards by a stride and lays the copies of a
\* card from the several decks next to one another.
Strides == <<17, 5, 7, 11, 19, 23>>
Shuffled(deck, s) ==
    IF s = 0
    THEN LET num_decks == Len(deck) \div CARDS_PER_DECK
         IN [i \in 1..Len(deck) |->
                deck[((i - 1) % num_decks) * CARDS_PER_DECK
                     + ((((i - 1) \div num_decks) * Strides[1]) % CARDS_PER_DECK) + 1]]
    ELSE [i \in 1..Len(deck) |-> deck[((i * Strides[s] + s) % Len(deck)) + 1]]
create_deck(round, n, s) == Shuffled(FreshDeck(calculate_required_decks(round, n)), s)
\* The hand of the j-th player of players: round cards popped from the end
\* of what the earlier players left, then sort_hand.
DealtHand(deck, round, j) ==
    SortHand([t \in 1..round |-> deck[Len(deck) - (j - 1) * round - (t - 1)]])


\* ------------------------------------------------------------------- state
\* Client sockets (web.WebSocketResponse objects) and display names.
Sockets == {1, 2, 3}
\* The sockets that create and join; socket 3 is a later connection of a
\* client that comes back.
Clients == {1, 2}
NoSocket == 0
\* The code of the one room.
RoomCode == "ROOM"

VARIABLES
    created,        \* GameServer.games holds the room
    players,        \* Game.players: participants in turn order
    spectators,     \* Game.spectators
    part,           \* the Player objects ever created: [kind, ws, name, hand, tricks_won]
    state,          \* Game.state
    current_round,  \* Game.current_round
    trump_suit,     \* Game.trump_suit (NoneStr: None)
    current_trick,  \* Game.current_trick.plays
    current_player, \* Game.current_player (NoPlayer: None)
    trick_starter,  \* Game.trick_starter
    trump_caller,   \* Game.trump_caller
    sessions,       \* GameServer.sessions: the session of token i is sessions[i]
    player_ws,      \* GameServer.player_ws: (token, socket) in insertion order
    task,           \* per socket: where its handle_connection coroutine stands
    sent,           \* the messages the last action sent, in order
    last            \* the message or continuation the last action handled

vars == <<created, players, spectators, part, state, current_round, trump_suit,
          current_trick, current_player, trick_starter, trump_caller, sessions, player_ws,
          task, sent, last>>

\* The room, and the registry of the server, as one value, for the operations
\* that call one another.
\* out: messages sent so far; exc: "" or the exception that ended the call
\* (a GameError's message, or Crash for any other exception); winner: the
\* local variable of handle_trick_completion once a trick is complete.
Crash == "!exception"
\* The shuffles a game is followed under: one stride in a room small enough
\* for one deck, and in a larger room the shuffle that may deal two copies of
\* a card into one hand.
Shuffles == IF Len(part) * FIRST_ROUND > CARDS_PER_DECK THEN {0} ELSE {4}
Room ==
    [players |-> players, spectators |-> spectators, part |-> part, state |-> state,
     current_round |-> current_round, trump_suit |-> trump_suit,
     current_trick |-> current_trick, current_player |-> current_player,
     trick_starter |-> trick_starter, trump_caller |-> trump_caller,
     sessions |-> sessions, player_ws |-> player_ws,
     out |-> <<>>, exc |-> "", winner |-> NoPlayer]

IsAI(g, p) == p # NoPlayer /\ g.part[p].kind = AI
IsHuman(g, p) == p # NoPlayer /\ g.part[p].kind = HUMAN
\* a == b on Optional[Player]
PEq(g, a, b) ==
    IF a = NoPlayer \/ b = NoPlayer THEN a = b
    ELSE a = b \/ RecEq(g.part[a], g.part[b])
\* p in seq, seq.index(p), seq.remove(p)
InSeq(g, seq, p) == \E i \in 1..Len(seq) : PEq(g, seq[i], p)
IndexOf(g, seq, p) ==
    CHOOSE i \in 1..Len(seq) : PEq(g, seq[i], p) /\ \A k \in 1..(i - 1) : ~PEq(g, seq[k], p)
RemoveAt(seq, i) == SubSeq(seq, 1, i - 1) \o SubSeq(seq, i + 1, Len(seq))

\* Game.get_game_state(for_player)["hand"]; NoHand when the key is absent.
NoHand == << <<"-">> >>
HandField(g, for_player) ==
    IF for_player # NoPlayer /\ InSeq(g, g.players, for_player)
    THEN [i \in 1..Len(g.part[for_player].hand) |-> CardStr(g.part[for_player].hand[i])]
    ELSE NoHand
\* A message to socket `to`: its type, the phase and hand of the snapshot it
\* carries, and what else it says (info).
Msg(g, to, type, for_player, info) ==
    [to |-> to, type |-> type, phase |-> g.state, hand |-> HandField(g, for_player),
     info |-> info]
Send(g, m) == [g EXCEPT !.out = Append(@, m)]
Raise(g, e) == [g EXCEPT !.exc = e]

Everyone(g) == g.players \o g.spectators
Humans(g) == SelectSeq(Everyone(g), LAMBDA p : IsHuman(g, p))
\* broadcast that reaches the active players only
broadcast_to_players(g, type, info) ==
    LET hs == SelectSeq(g.players, LAMBDA p : IsHuman(g, p))
    IN [g EXCEPT !.out = @ \o [i \in 1..Len(hs) |-> Msg(g, g.part[hs[i]].ws, type, NoPlayer, info)]]
\* Game.broadcast
broadcast(g, type, info) ==
    LET hs == Humans(g)
    IN [g EXCEPT !.out = @ \o [i \in 1..Len(hs) |-> Msg(g, g.part[hs[i]].ws, type, NoPlayer, info)]]
\* Game.broadcast_game_state
broadcast_game_state(g) ==
    LET hs == Humans(g)
    IN [g EXCEPT !.out = @ \o [i \in 1..Len(hs) |-> Msg(g, g.part[hs[i]].ws, "gameState", hs[i], "")]]

\* Game.next_player
next_player(g, current) ==
    IF Len(g.players) = 0 THEN NoPlayer
    ELSE IF InSeq(g, g.players, current)
         THEN g.players[(IndexOf(g, g.players, current) % Len(g.players)) + 1]
         ELSE g.players[1]

\* move_to_spectator that keeps nobody as a spectator
move_to_spectator_drops(g, p) ==
    IF ~InSeq(g, g.players, p) THEN g
    ELSE [g EXCEPT !.players = RemoveAt(@, IndexOf(g, g.players, p))]
\* move_to_spectator that tells the eliminated player nothing
move_to_spectator_silent(g, p) ==
    IF ~InSeq(g, g.players, p) THEN g
    ELSE LET g1 == [g EXCEPT !.players = RemoveAt(@, IndexOf(g, g.players, p))]
         IN IF ~IsHuman(g, p) THEN g1
            ELSE [g1 EXCEPT !.spectators = Append(@, p)]
\* Game.move_to_spectator
move_to_spectator(g, p) ==
    IF ~InSeq(g, g.players, p) THEN g
    ELSE LET g1 == [g EXCEPT !.players = RemoveAt(@, IndexOf(g, g.players, p))]
         IN IF ~IsHuman(g, p) THEN g1
            ELSE LET g2 == [g1 EXCEPT !.spectators = Append(@, p)]
                     g3 == Send(g2, Msg(g2, g2.part[p].ws, "eliminated", NoPlayer, ""))
                 IN Send(g3, Msg(g3, g3.part[p].ws, "gameState", NoPlayer, "isSpectator"))

\* Game.deal_cards with shuffle outcome s
deal_cards(g, s) ==
    LET n == Len(g.players)
        deck == create_deck(g.current_round, n, s)
    IN IF Len(deck) < g.current_round * n THEN Raise(g, "Not enough cards in deck")
       ELSE broadcast_game_state(
              [g EXCEPT !.part = [q \in 1..Len(g.part) |->
                  IF \E j \in 1..n : g.players[j] = q
                  THEN [g.part[q] EXCEPT
                          !.hand = DealtHand(deck, g.current_round,
                                             CHOOSE j \in 1..n : g.players[j] = q),
                          !.tricks_won = 0]
                  ELSE g.part[q]]])

\* Game.start_round
start_round(g) ==
    LET g1 == [g EXCEPT !.state = PLAYING, !.current_trick = <<>>,
                        !.current_player = g.trick_starter]
    IN broadcast_game_state(broadcast(g1, "roundStart", ""))

\* start_trump_selection that waits for a trump call in every round
start_trump_selection_always_calls(g, s, rt, rs) ==
    LET g1 == deal_cards([g EXCEPT !.state = CALLING_TRUMPS], s)
    IN IF g1.exc # "" THEN g1
       ELSE IF g1.trump_caller = NoPlayer /\ Len(g1.players) = 0 THEN Raise(g1, Crash)
       ELSE broadcast([g1 EXCEPT !.current_player = g1.players[rs],
                                 !.trick_starter = g1.players[rs]], "trumpSelection", "")
\* Game.start_trump_selection up to its call of handle_ai_turns.  rt and rs
\* are the outcomes of random.choice for the trump and the first player.
start_trump_selection(g, s, rt, rs) ==
    LET g1 == deal_cards([g EXCEPT !.state = CALLING_TRUMPS], s)
    IN IF g1.exc # "" THEN g1
       ELSE IF g1.current_round = FIRST_ROUND
       THEN IF Len(g1.players) = 0 THEN Raise([g1 EXCEPT !.trump_suit = <<SUITS[rt]>>], Crash)
            ELSE start_round([g1 EXCEPT !.trump_suit = <<SUITS[rt]>>,
                                        !.current_player = g1.players[rs],
                                        !.trick_starter = g1.players[rs]])
       ELSE IF g1.trump_caller = NoPlayer THEN Raise(g1, Crash)
            ELSE broadcast(g1, "trumpSelection", "")

\* handle_trump_selection that stores the suit before it checks it
handle_trump_selection_store_first(g, p, suit) ==
    IF g.state # CALLING_TRUMPS THEN Raise(g, "Not time to call trumps")
    ELSE IF ~PEq(g, p, g.trump_caller) THEN Raise(g, "Not your turn to call trumps")
    ELSE IF ~StrIn(suit, SUITS) THEN Raise([g EXCEPT !.trump_suit = suit], "Invalid suit")
    ELSE start_round([g EXCEPT !.trump_suit = suit])
\* Game.handle_trump_selection up to its call of handle_ai_turns
handle_trump_selection(g, p, suit) ==
    IF g.state # CALLING_TRUMPS THEN Raise(g, "Not time to call trumps")
    ELSE IF ~PEq(g, p, g.trump_caller) THEN Raise(g, "Not your turn to call trumps")
    ELSE IF ~StrIn(suit, SUITS) THEN Raise(g, "Invalid suit")
    ELSE start_round([g EXCEPT !.trump_suit = suit])

\* validate_play without the follow-suit rule
validate_play_any_suit(g, p, card) ==
    LET hand == g.part[p].hand
    IN IF g.state # PLAYING THEN "Not time to play"
       ELSE IF ~PEq(g, p, g.current_player) THEN "Not your turn"
       ELSE IF \E i \in 1..Len(g.current_trick) : PEq(g, g.current_trick[i].player, p)
            THEN "Already played this round"
       ELSE IF ~\E i \in 1..Len(hand) : CardEq(hand[i], card) THEN "Card not in hand"
       ELSE ""
\* Game.validate_play: "" or the GameError raised
validate_play(g, p, card) ==
    LET hand == g.part[p].hand
        led == LedSuit(g.current_trick)
    IN IF g.state # PLAYING THEN "Not time to play"
       ELSE IF ~PEq(g, p, g.current_player) THEN "Not your turn"
       ELSE IF \E i \in 1..Len(g.current_trick) : PEq(g, g.current_trick[i].player, p)
            THEN "Already played this round"
       ELSE IF ~\E i \in 1..Len(hand) : CardEq(hand[i], card) THEN "Card not in hand"
       ELSE IF /\ Len(g.current_trick) > 0 /\ Len(hand) > 0
               /\ \E i \in 1..Len(hand) : hand[i].suit = led
               /\ card.suit # led
            THEN "Must follow suit"
       ELSE ""

\* hand_pop that takes every card equal to the one played
hand_pop_equal(hand, card) == SelectSeq(hand, LAMBDA c : ~CardEq(c, card))
\* The loop of play_card over player.hand: the first card of the suit and rank
\* played is popped.
hand_pop(hand, card) ==
    RemoveAt(hand, CHOOSE i \in 1..Len(hand) :
                      CardEq(hand[i], card) /\ \A k \in 1..(i - 1) : ~CardEq(hand[k], card))

\* Game.play_card up to the first asyncio.sleep (in handle_trick_completion)
\* or, when the trick is not complete, up to handle_ai_turns.
TrickDone(g) == IsComplete(g.current_trick, Len(g.players))
play_card(g, p, card_str) ==
    IF ParseFails(card_str) THEN Raise(g, Crash)
    ELSE
    LET card == FromString(card_str)
        err == validate_play(g, p, card)
    IN IF err # "" THEN Raise(g, err)
       ELSE
       LET g1 == [g EXCEPT !.part[p].hand = hand_pop(@, card),
                           !.current_trick = Append(@, [player |-> p, card |-> card])]
           g2 == [g1 EXCEPT !.current_player = next_player(g1, p)]
           g3 == broadcast(g2, "cardPlayed", "")
       IN IF ~TrickDone(g3) THEN g3
          ELSE LET g4 == broadcast(g3, "trickComplete", "")
                   winner == determine_winner(g4.part, g4.current_trick, g4.trump_suit)
               IN [g4 EXCEPT !.part[winner].tricks_won = @ + 1, !.winner = winner]

\* trick_winner_step that leaves the complete trick on the table
trick_winner_step_same_trick(g, winner) ==
    LET g1 == broadcast(g, "trickWinner", "")
    IN [g1 EXCEPT !.current_player = winner, !.trick_starter = winner]
\* trick_winner_step that hands the lead to the player after the winner
trick_winner_step_next_leads(g, winner) ==
    LET g1 == broadcast(g, "trickWinner", "")
    IN [g1 EXCEPT !.current_player = next_player(g1, winner), !.trick_starter = winner,
                  !.current_trick = <<>>]
\* Game.handle_trick_completion between asyncio.sleep(2) and asyncio.sleep(1)
trick_winner_step(g, winner) ==
    LET g1 == broadcast(g, "trickWinner", "")
    IN [g1 EXCEPT !.current_player = winner, !.trick_starter = winner,
                  !.current_trick = <<>>]

RECURSIVE MoveAll(_, _)
MoveAll(g, ps) ==
    IF Len(ps) = 0 THEN g ELSE MoveAll(move_to_spectator(g, ps[1]), Tail(ps))
RECURSIVE MaxTricks(_, _)
MaxTricks(g, ps) ==
    IF Len(ps) = 0 THEN 0 ELSE Max2(g.part[ps[1]].tricks_won, MaxTricks(g, Tail(ps)))
\* potential_choosers that admits every survivor
potential_choosers_anyone(g) == g.players
potential_choosers(g) ==
    SelectSeq(g.players, LAMBDA p : g.part[p].tricks_won = MaxTricks(g, g.players))
\* game_over that lets two survivors play on to the last round only
game_over_last_round(g) == g.current_round <= 1
\* The test of handle_round_end for the end of the game.
game_over(g) == Len(g.players) <= 1 \/ g.current_round <= 1
\* Game.handle_round_end; ci is the outcome of random.choice(potential_choosers).
\* The gameOver message carries the winner's name.
handle_round_end(g, s, rt, rs, ci) ==
    LET eliminated_players == SelectSeq(g.players, LAMBDA p : g.part[p].tricks_won = 0)
        g1 == MoveAll(g, eliminated_players)
    IN IF game_over(g1)
       THEN LET g2 == [g1 EXCEPT !.state = FINISHED]
            IN IF Len(g2.players) > 0
               THEN broadcast(g2, "gameOver", g2.part[g2.players[1]].name)
               ELSE g2
       ELSE LET pc == potential_choosers(g1)
                caller == pc[Min2(ci, Len(pc))]
                g2 == [g1 EXCEPT !.trump_caller = caller,
                                 !.current_round = @ - 1,
                                 !.trump_suit = NoneStr,
                                 !.current_player = caller,
                                 !.trick_starter = caller]
            IN start_trump_selection(broadcast(g2, "roundEnd", ""), s, rt, rs)

\* Game.handle_trick_completion after asyncio.sleep(1)
next_trick_step(g, s, rt, rs, ci) ==
    IF ~\E i \in 1..Len(g.players) : Len(g.part[g.players[i]].hand) > 0
    THEN handle_round_end(g, s, rt, rs, ci)
    ELSE broadcast(g, "nextTrick", "")

\* reset_game that leaves the spectators where they are
reset_game_players_only(g) ==
    broadcast_game_state(
      [g EXCEPT !.current_round = FIRST_ROUND, !.trump_suit = NoneStr,
                !.current_trick = <<>>, !.current_player = NoPlayer,
                !.trick_starter = NoPlayer, !.trump_caller = NoPlayer,
                !.state = WAITING,
                !.part = [q \in 1..Len(g.part) |->
                    IF \E j \in 1..Len(g.players) : g.players[j] = q
                    THEN [g.part[q] EXCEPT !.hand = <<>>, !.tricks_won = 0]
                    ELSE g.part[q]]])
\* Game.reset_game
reset_game(g) ==
    LET ps == g.players \o g.spectators
    IN broadcast_game_state(
         [g EXCEPT !.current_round = FIRST_ROUND, !.trump_suit = NoneStr,
                   !.current_trick = <<>>, !.current_player = NoPlayer,
                   !.trick_starter = NoPlayer, !.trump_caller = NoPlayer,
                   !.state = WAITING, !.players = ps, !.spectators = <<>>,
                   !.part = [q \in 1..Len(g.part) |->
                       IF \E j \in 1..Len(ps) : ps[j] = q
                       THEN [g.part[q] EXCEPT !.hand = <<>>, !.tricks_won = 0]
                       ELSE g.part[q]]])


\* ---------------------------------------------------------------- dispatch
\* GameServer.find_game_for_player succeeds
InGame(ws) == created /\ \E i \in 1..Len(players \o spectators) : part[(players \o spectators)[i]].ws = ws
\* GameServer.find_player_in_game: the first participant bound to the socket
find_player_in_game(ws) ==
    LET all == players \o spectators
    IN all[CHOOSE i \in 1..Len(all) :
              part[all[i]].ws = ws /\ \A k \in 1..(i - 1) : part[all[k]].ws # ws]

\* Where Game.handle_ai_turns first sleeps, or idle when it returns at once.
AfterAI(g) ==
    IF g.state = CALLING_TRUMPS
    THEN (IF IsAI(g, g.trump_caller) THEN "ai_trump" ELSE "idle")
    ELSE IF g.state = PLAYING /\ IsAI(g, g.current_player) THEN "ai_play"
    ELSE "idle"
\* After play_card's first part: the pause of handle_trick_completion, or
\* handle_ai_turns.
AfterPlay(g) == IF g.winner # NoPlayer THEN "sleep2" ELSE AfterAI(g)

Idle(ws) == task[ws].pc = "idle"
\* The length of the sleep a coroutine enters at pc (0: it does not sleep).
Dur(pc) ==
    CASE pc = "ai_trump" -> AI_TRUMP_SLEEP
      [] pc = "ai_play" -> AI_PLAY_SLEEP
      [] pc = "sleep2" -> TRICK_SLEEP
      [] pc = "sleep1" -> NEXT_TRICK_SLEEP
      [] OTHER -> 0
Sleeping(ws) == Dur(task[ws].pc) > 0
\* The sleep of ws is over, and so is every sleep of the same length that
\* began before it (the event loop wakes timers in the order of their
\* deadlines).
Awake(ws) == task[ws].due = 0 /\ task[ws].behind = {}
\* The coroutine of ws moves to pc: a sleep begun now ends after the sleeps of
\* the same length begun earlier in the same half second.
Resume(ws, pc, winner) ==
    [o \in Sockets |->
        IF o = ws
        THEN [pc |-> pc, winner |-> winner, due |-> Dur(pc),
              behind |-> IF Dur(pc) = 0 THEN {}
                         ELSE {b \in Sockets \ {ws} :
                                  Dur(task[b].pc) = Dur(pc) /\ task[b].due = Dur(pc)}]
        ELSE [task[o] EXCEPT !.behind = @ \ {ws}]]
\* What the last action handled: the message type (or continuation), the
\* socket, the participant it acts for, its argument when it was accepted,
\* and the exception raised ("": none).
Event(op, ws, p, arg, g) ==
    [op |-> op, ws |-> ws, p |-> p, arg |-> IF g.exc = "" THEN arg ELSE <<>>, err |-> g.exc]

\* set_player_ws that adds an entry at every call
set_player_ws_appends(pws, session_id, ws) == Append(pws, [sid |-> session_id, ws |-> ws])
\* self.player_ws[session_id] = ws
set_player_ws(pws, session_id, ws) ==
    IF \E i \in 1..Len(pws) : pws[i].sid = session_id
    THEN [i \in 1..Len(pws) |-> IF pws[i].sid = session_id THEN [pws[i] EXCEPT !.ws = ws] ELSE pws[i]]
    ELSE Append(pws, [sid |-> session_id, ws |-> ws])
\* The finally clause of handle_connection: the first entry of player_ws that
\* holds the socket is deleted.
finally(pws, ws) ==
    IF \E i \in 1..Len(pws) : pws[i].ws = ws
    THEN RemoveAt(pws, CHOOSE i \in 1..Len(pws) :
                          pws[i].ws = ws /\ \A k \in 1..(i - 1) : pws[k].ws # ws)
    ELSE pws
\* GameServer.create_session: the token is the number of the session
create_session(g, name) ==
    [g EXCEPT !.sessions = Append(@, [name |-> name, game_code |-> RoomCode])]

\* The room and the socket's coroutine after a call that ended in g.
\* caught: the call stands inside handle_connection's try/except GameError.
Commit(ws, g, pc, caught, ev) ==
    /\ players' = g.players
    /\ spectators' = g.spectators
    /\ part' = g.part
    /\ state' = g.state
    /\ current_round' = g.current_round
    /\ trump_suit' = g.trump_suit
    /\ current_trick' = g.current_trick
    /\ current_player' = g.current_player
    /\ trick_starter' = g.trick_starter
    /\ trump_caller' = g.trump_caller
    /\ sessions' = g.sessions
    /\ last' = ev
    /\ IF g.exc = ""
       THEN /\ task' = Resume(ws, pc, g.winner)
            /\ sent' = g.out
            /\ player_ws' = g.player_ws
       ELSE IF g.exc # Crash /\ caught
       THEN /\ task' = Resume(ws, "idle", NoPlayer)
            /\ sent' = Append(g.out, Msg(g, ws, "error", NoPlayer, g.exc))
            /\ player_ws' = g.player_ws
       ELSE /\ task' = Resume(ws, "dead", NoPlayer)
            /\ sent' = g.out
            /\ player_ws' = finally(g.player_ws, ws)

NewHuman(ws, name) == [kind |-> HUMAN, ws |-> ws, name |-> name, hand |-> <<>>, tricks_won |-> 0]
NewAI(name) == [kind |-> AI, ws |-> NoSocket, name |-> name, hand |-> <<>>, tricks_won |-> 0]

\* handle_create_game (one room: the model follows the first room created)
Create(ws, name) ==
    /\ Idle(ws) /\ ~created /\ Len(part) < MaxSeats
    /\ created' = TRUE
    /\ LET g0 == create_session(Room, name)
           g1 == [g0 EXCEPT !.player_ws = set_player_ws(@, Len(g0.sessions), ws),
                            !.part = Append(@, NewHuman(ws, name)),
                            !.players = Append(@, Len(part) + 1)]
       IN Commit(ws, Send(g1, Msg(g1, ws, "gameCreated", Len(part) + 1, "")), "idle",
                 FALSE, Event("create", ws, Len(part) + 1, name, g1))

\* handle_join_game that admits a player to a full room
handle_join_game_no_cap(g, ws, name, known) ==
    IF ~(known /\ created) THEN Raise(g, "Game not found")
    ELSE IF g.state # WAITING THEN Raise(g, "Game already started")
    ELSE LET id == Len(g.part) + 1
             g0 == create_session(g, name)
             g1 == [g0 EXCEPT !.player_ws = set_player_ws(@, Len(g0.sessions), ws),
                              !.part = Append(@, NewHuman(ws, name)),
                              !.players = Append(@, id)]
         IN broadcast(Send(g1, Msg(g1, ws, "joined", id, "")), "playerJoined", "")
\* handle_join_game; known: the code names the room
handle_join_game(g, ws, name, known) ==
    IF ~(known /\ created) THEN Raise(g, "Game not found")
    ELSE IF g.state # WAITING THEN Raise(g, "Game already started")
    ELSE IF Len(g.players) >= MAX_PLAYERS THEN Raise(g, "Game full")
    ELSE LET id == Len(g.part) + 1
             g0 == create_session(g, name)
             g1 == [g0 EXCEPT !.player_ws = set_player_ws(@, Len(g0.sessions), ws),
                              !.part = Append(@, NewHuman(ws, name)),
                              !.players = Append(@, id)]
         IN broadcast(Send(g1, Msg(g1, ws, "joined", id, "")), "playerJoined", "")
\* A join message handled by handle_connection
JoinRoom(ws, name, known) ==
    /\ Idle(ws)
    /\ LET g == handle_join_game(Room, ws, name, known)
       IN Commit(ws, g, "idle", FALSE, Event("join", ws, NoPlayer, name, g))
    /\ UNCHANGED created
\* A join message while the room has a seat left for the model to follow
Join(ws, name, known) ==
    /\ handle_join_game(Room, ws, name, known).exc = "" => Len(part) < MaxSeats
    /\ JoinRoom(ws, name, known)

\* "A", "I", " " and the count of AI players plus one
AiName(g) ==
    <<"A", "I", " ">> \o IntStr(Len(SelectSeq(g.players, LAMBDA p : IsAI(g, p))) + 1)
\* Game.add_ai_player
add_ai_player(g, name) ==
    LET nm == IF name = NoneStr \/ name = <<>> THEN AiName(g) ELSE name
        g1 == [g EXCEPT !.part = Append(@, NewAI(nm)), !.players = Append(@, Len(g.part) + 1)]
    IN broadcast(g1, "playerJoined", "isAI")
AddAI(ws, name) ==
    /\ Idle(ws)
    /\ LET g == IF InGame(ws) THEN add_ai_player(Room, name)
                ELSE Raise(Room, "Player not found in any game")
       IN /\ g.exc = "" => Len(part) < MaxSeats
          /\ Commit(ws, g, "idle", FALSE, Event("addAI", ws, NoPlayer, name, g))
    /\ UNCHANGED created

\* GameServer.handle_start_game up to handle_ai_turns
handle_start_game(g, s, rt, rs) ==
    IF g.state # WAITING THEN Raise(g, "Game already started")
    ELSE IF Len(g.players) < 2 THEN Raise(g, "Need at least 2 players")
    ELSE start_trump_selection(g, s, rt, rs)
StartGame(ws) ==
    /\ Idle(ws) /\ InGame(ws)
    /\ \E s \in Shuffles, rt \in 1..4, rs \in 1..Max2(1, Len(players)) :
         \* a refused start draws nothing
         /\ (state # WAITING \/ Len(players) < 2) => (rt = 1 /\ rs = 1)
         /\ LET g == handle_start_game(Room, s, rt, rs)
            IN Commit(ws, g, AfterAI(g), TRUE,
                      Event("startGame", ws, find_player_in_game(ws), <<>>, g))
    /\ UNCHANGED created

PlayCard(ws, card_str) ==
    /\ Idle(ws) /\ InGame(ws)
    /\ LET p == find_player_in_game(ws)
           g == play_card(Room, p, card_str)
       IN Commit(ws, g, AfterPlay(g), TRUE, Event("playCard", ws, p, card_str, g))
    /\ UNCHANGED created

CallTrumps(ws, suit) ==
    /\ Idle(ws) /\ InGame(ws)
    /\ LET p == find_player_in_game(ws)
           g == handle_trump_selection(Room, p, suit)
       IN Commit(ws, g, AfterAI(g), TRUE, Event("callTrumps", ws, p, suit, g))
    /\ UNCHANGED created

PlayAgain(ws) ==
    /\ Idle(ws) /\ InGame(ws)
    /\ LET p == find_player_in_game(ws)
           g1 == reset_game(Room)
           g == Send(g1, Msg(g1, ws, "playAgainSuccess", p, ""))
       IN Commit(ws, g, "idle", TRUE, Event("playAgain", ws, p, <<>>, g))
    /\ UNCHANGED created

\* The first human of seq with the name, or NoPlayer.
FirstNamed(g, seq, name) ==
    LET hit(i) == IsHuman(g, seq[i]) /\ g.part[seq[i]].name = name
    IN IF \E i \in 1..Len(seq) : hit(i)
       THEN seq[CHOOSE i \in 1..Len(seq) : hit(i) /\ \A k \in 1..(i - 1) : ~hit(k)]
       ELSE NoPlayer
\* GameServer.handle_reconnection for a token the server knows
handle_reconnection(g, ws, session_id) ==
    LET session == g.sessions[session_id]
        g1 == [g EXCEPT !.player_ws = set_player_ws(@, session_id, ws)]
        player == FirstNamed(g1, g1.players, session.name)
        spectator == FirstNamed(g1, g1.spectators, session.name)
    IN IF player # NoPlayer
       THEN LET g2 == [g1 EXCEPT !.part[player].ws = ws]
            IN Send(g2, Msg(g2, ws, "gameState", player, ""))
       ELSE IF spectator # NoPlayer
       THEN LET g2 == [g1 EXCEPT !.part[spectator].ws = ws]
            IN Send(g2, Msg(g2, ws, "gameState", NoPlayer, "isSpectator"))
       ELSE Raise(g1, "Player not found in game")
\* A reconnect message with token session_id (0: none, or one never issued)
Reconnect(ws, session_id) ==
    /\ Idle(ws)
    /\ IF session_id \notin 1..Len(sessions)
       THEN Commit(ws, Send(Room, Msg(Room, ws, "error", NoPlayer, "Invalid session")), "idle",
                   FALSE, [op |-> "reconnect", ws |-> ws, p |-> NoPlayer, arg |-> <<>>,
                           err |-> "Invalid session"])
       ELSE LET g == handle_reconnection(Room, ws, session_id)
            IN Commit(ws, g, "idle", FALSE,
                      [op |-> "reconnect", ws |-> ws, p |-> NoPlayer, arg |-> session_id,
                       err |-> g.exc])
    /\ UNCHANGED created

\* The socket closes while its coroutine reads it: the loop of
\* handle_connection ends and its finally clause runs.
Close(ws) ==
    /\ Idle(ws)
    /\ task' = Resume(ws, "dead", NoPlayer)
    /\ player_ws' = finally(player_ws, ws)
    /\ last' = [op |-> "close", ws |-> ws, p |-> NoPlayer, arg |-> <<>>, err |-> ""]
    /\ sent' = <<>>
    /\ UNCHANGED <<created, players, spectators, part, state, current_round, trump_suit,
                   current_trick, current_player, trick_starter, trump_caller, sessions>>

\* ---------------------------------------------- continuations after a sleep
\* handle_trick_completion after asyncio.sleep(2)
WakeTrickWinner(ws) ==
    /\ task[ws].pc = "sleep2" /\ Awake(ws)
    /\ LET g == [trick_winner_step(Room, task[ws].winner) EXCEPT !.winner = task[ws].winner]
       IN Commit(ws, g, "sleep1", TRUE, Event("trickWinner", ws, task[ws].winner, <<>>, g))
    /\ UNCHANGED created

\* handle_trick_completion after asyncio.sleep(1), then back in play_card
WakeNextTrick(ws) ==
    /\ task[ws].pc = "sleep1" /\ Awake(ws)
    /\ \E s \in Shuffles, ci \in 1..Max2(1, Len(players)) :
         \* the round goes on: nothing is drawn
         /\ (\E i \in 1..Len(players) : Len(part[players[i]].hand) > 0) => ci = 1
         /\ LET g == next_trick_step(Room, s, 1, 1, ci)
            IN Commit(ws, g, AfterAI(g), TRUE, Event("nextTrick", ws, task[ws].winner, <<>>, g))
    /\ UNCHANGED created

\* handle_ai_turns after asyncio.sleep(1): the AI calls trumps
WakeAITrump(ws) ==
    /\ task[ws].pc = "ai_trump" /\ Awake(ws)
    /\ LET g0 == Room
           g == IF ~IsAI(g0, trump_caller) THEN Raise(g0, Crash)
                ELSE handle_trump_selection(g0, trump_caller, choose_trump(part[trump_caller].hand))
       IN Commit(ws, g, AfterAI(g), TRUE, Event("aiTrump", ws, trump_caller, <<>>, g))
    /\ UNCHANGED created

\* handle_ai_turns after asyncio.sleep(0.5): the AI plays a card
WakeAIPlay(ws) ==
    /\ task[ws].pc = "ai_play" /\ Awake(ws)
    /\ LET g0 == Room
           ai_player == current_player
           fails == ~IsAI(g0, ai_player) \/ ChooseCardFails(part[ai_player].hand)
           card_str == IF fails THEN <<>>
                       ELSE CardStr(choose_card(part[ai_player].hand, current_trick, trump_suit))
           g == IF fails THEN Raise(g0, Crash) ELSE play_card(g0, ai_player, card_str)
       IN Commit(ws, g, AfterPlay(g), TRUE, Event("aiPlay", ws, ai_player, card_str, g))
    /\ UNCHANGED created

\* Half a second passes: no sleep is due, and some coroutine sleeps.
Tick ==
    /\ \E ws \in Sockets : Sleeping(ws)
    /\ \A ws \in Sockets : Sleeping(ws) => task[ws].due > 0
    /\ task' = [ws \in Sockets |->
                  IF Sleeping(ws) THEN [task[ws] EXCEPT !.due = @ - 1] ELSE task[ws]]
    /\ last' = [op |-> "tick", ws |-> NoSocket, p |-> NoPlayer, arg |-> <<>>, err |-> ""]
    /\ sent' = <<>>
    /\ UNCHANGED <<created, players, spectators, part, state, current_round, trump_suit,
                   current_trick, current_player, trick_starter, trump_caller,
                   sessions, player_ws>>

\* ------------------------------------------------------------------ inputs
\* The suits a client sends in callTrumps.
SuitInputs == {<<"H">>, <<>>, <<"S", "H">>, <<"X">>}
\* The names a client sends in addAI (None: the default name).
AiNameInputs == {NoneStr, <<"x">>}
\* The name a client sends in create and join.
NameOf(ws) == IF ws = 1 THEN <<"a">> ELSE <<"b">>
\* The cards a client names in playCard: the cards at PickPositions of the
\* cards it may legally play now and of its whole hand, and one fixed card.
PickPositions == {1}
Picks(cs) == {cs[i] : i \in PickPositions \cap (1..Len(cs))}
CardInputs(ws) ==
    LET hand == IF InGame(ws) THEN part[find_player_in_game(ws)].hand ELSE <<>>
    IN {CardStr(c) : c \in Picks(get_playable_cards(hand, current_trick)) \cup Picks(hand)}
         \cup {<<"A", "S">>}

Init ==
    /\ created = FALSE
    /\ players = <<>>
    /\ spectators = <<>>
    /\ part = <<>>
    /\ state = WAITING
    /\ current_round = FIRST_ROUND
    /\ trump_suit = NoneStr
    /\ current_trick = <<>>
    /\ current_player = NoPlayer
    /\ trick_starter = NoPlayer
    /\ trump_caller = NoPlayer
    /\ sessions = <<>>
    /\ player_ws = <<>>
    /\ task = [ws \in Sockets |-> [pc |-> "idle", winner |-> NoPlayer, due |-> 0, behind |-> {}]]
    /\ sent = <<>>
    /\ last = [op |-> "init", ws |-> NoSocket, p |-> NoPlayer, arg |-> <<>>, err |-> ""]

\* The clients of Spec play one game: socket 1 creates the room, a socket
\* joins when it is bound to no participant, and addAI is sent in the lobby.
\* Sessions that come and go, and playAgain, are the matter of SpecSession.
Next ==
    \/ Tick
    \/ \E ws \in Clients :
       \/ ws = 1 /\ Create(ws, NameOf(ws))
       \/ ~InGame(ws) /\ \E known \in BOOLEAN : Join(ws, NameOf(ws), known)
       \/ state = WAITING /\ \E name \in AiNameInputs : AddAI(ws, name)
       \/ StartGame(ws)
       \/ \E c \in CardInputs(ws) : PlayCard(ws, c)
       \/ \E suit \in SuitInputs : CallTrumps(ws, suit)
       \/ WakeTrickWinner(ws)
       \/ WakeNextTrick(ws)
       \/ WakeAITrump(ws)
       \/ WakeAIPlay(ws)

Spec == Init /\ [][Next]_vars

\* The clients of SpecSession come and go: socket 1 creates the room, socket 2
\* joins under a name of SessionNames and may close, and socket 3 reconnects
\* with a token of TokenInputs (the joiner's; 0: a token never issued).  Each
\* client plays the first card it may play, nobody calls trumps (the game
\* rests when the first round is over), and playAgain is sent whenever no
\* trick is being played.
SessionNames == {<<"a">>, <<"b">>}
TokenInputs == {0, 2}
FirstCards(ws) ==
    LET hand == IF InGame(ws) THEN part[find_player_in_game(ws)].hand ELSE <<>>
    IN {CardStr(c) : c \in Picks(get_playable_cards(hand, current_trick))}
NextSession ==
    \/ Tick
    \/ \E ws \in Sockets :
       \/ ws = 1 /\ Create(ws, NameOf(ws))
       \/ ws = 2 /\ ~InGame(ws) /\ \E name \in SessionNames : Join(ws, name, TRUE)
       \/ StartGame(ws)
       \/ \E c \in FirstCards(ws) : PlayCard(ws, c)
       \/ state # PLAYING /\ PlayAgain(ws)
       \/ WakeTrickWinner(ws)
       \/ WakeNextTrick(ws)
       \/ ws = 3 /\ \E session_id \in TokenInputs : Reconnect(ws, session_id)
       \/ ws = 2 /\ Close(ws)
SpecSession == Init /\ [][NextSession]_vars

\* The lobby near its limit: the creator has added up to MaxLobby - 1 AI
\* players under their default names; sockets 2 and 3 join, and the game may
\* be started.
MaxLobby == 22
InitLobby ==
    /\ created = TRUE
    /\ \E n \in 0..(MaxLobby - 1) :
          /\ part = <<NewHuman(1, NameOf(1))>> \o
                      [k \in 1..n |-> NewAI(<<"A", "I", " ">> \o IntStr(k))]
          /\ players = [k \in 1..(n + 1) |-> k]
    /\ spectators = <<>>
    /\ state = WAITING
    /\ current_round = FIRST_ROUND
    /\ trump_suit = NoneStr
    /\ current_trick = <<>>
    /\ current_player = NoPlayer
    /\ trick_starter = NoPlayer
    /\ trump_caller = NoPlayer
    /\ sessions = <<[name |-> NameOf(1), game_code |-> RoomCode]>>
    /\ player_ws = <<[sid |-> 1, ws |-> 1]>>
    /\ task = [ws \in Sockets |-> [pc |-> "idle", winner |-> NoPlayer, due |-> 0, behind |-> {}]]
    /\ sent = <<>>
    /\ last = [op |-> "init", ws |-> NoSocket, p |-> NoPlayer, arg |-> <<>>, err |-> ""]
NextLobby ==
    \E ws \in Sockets :
       \/ ws # 1 /\ ~InGame(ws) /\ \E known \in BOOLEAN : JoinRoom(ws, NameOf(ws), known)
       \/ ws = 1 /\ StartGame(ws)
SpecLobby == InitLobby /\ [][NextLobby]_vars


\* Dealing by itself: a room in any round with up to MaxDeal players (the
\* creator and AI players under their default names) and a spectator, every
\* participant still holding a card and a trick of the round before;
\* deal_cards is applied with each shuffle of DealShuffles.
MaxDeal == 22
DealShuffles == 0..6
StaleCard == Card("S", 2, 1)
InitDeal ==
    /\ created = TRUE
    /\ \E n \in 0..MaxDeal :
          /\ part = [k \in 1..(n + 1) |->
                       [(IF k = 1 \/ k = n + 1 THEN NewHuman(Min2(k, 2), NameOf(k))
                         ELSE NewAI(<<"A", "I", " ">> \o IntStr(k - 1)))
                        EXCEPT !.hand = <<StaleCard>>, !.tricks_won = 1]]
          /\ players = [k \in 1..n |-> k]
          /\ spectators = <<n + 1>>
    /\ state = CALLING_TRUMPS
    /\ current_round \in 1..FIRST_ROUND
    /\ trump_suit = NoneStr
    /\ current_trick = <<>>
    /\ current_player = NoPlayer
    /\ trick_starter = NoPlayer
    /\ trump_caller = NoPlayer
    /\ sessions = <<>>
    /\ player_ws = <<>>
    /\ task = [ws \in Sockets |-> [pc |-> "idle", winner |-> NoPlayer, due |-> 0, behind |-> {}]]
    /\ sent = <<>>
    /\ last = [op |-> "init", ws |-> NoSocket, p |-> NoPlayer, arg |-> <<>>, err |-> ""]
DealCards ==
    /\ \E s \in DealShuffles :
          LET g == deal_cards(Room, s)
          IN Commit(1, g, "idle", TRUE, Event("deal", 1, NoPlayer, s, g))
    /\ UNCHANGED created
NextDeal == DealCards
SpecDeal == InitDeal /\ [][NextDeal]_vars


\* A room large enough for two decks: the creator and seven AI players under
\* their default names.  The game is started and its first round followed:
\* the client plays the first card it may play, or names the ace of spades.
DeckSeats == 8
InitDecks ==
    /\ created = TRUE
    /\ part = <<NewHuman(1, NameOf(1))>> \o
                [k \in 1..(DeckSeats - 1) |-> NewAI(<<"A", "I", " ">> \o IntStr(k))]
    /\ players = [k \in 1..DeckSeats |-> k]
    /\ spectators = <<>>
    /\ state = WAITING
    /\ current_round = FIRST_ROUND
    /\ trump_suit = NoneStr
    /\ current_trick = <<>>
    /\ current_player = NoPlayer
    /\ trick_starter = NoPlayer
    /\ trump_caller = NoPlayer
    /\ sessions = <<[name |-> NameOf(1), game_code |-> RoomCode]>>
    /\ player_ws = <<[sid |-> 1, ws |-> 1]>>
    /\ task = [ws \in Sockets |-> [pc |-> "idle", winner |-> NoPlayer, due |-> 0, behind |-> {}]]
    /\ sent = <<>>
    /\ last = [op |-> "init", ws |-> NoSocket, p |-> NoPlayer, arg |-> <<>>, err |-> ""]
InFirstRound == current_round = FIRST_ROUND
NextDecks ==
    \/ InFirstRound /\ Tick
    \/ InFirstRound /\ StartGame(1)
    \/ InFirstRound /\ \E c \in FirstCards(1) \cup {<<"A", "S">>} : PlayCard(1, c)
    \/ InFirstRound /\ WakeTrickWinner(1)
    \/ InFirstRound /\ WakeNextTrick(1)
    \/ InFirstRound /\ WakeAIPlay(1)
SpecDecks == InitDecks /\ [][NextDecks]_vars


\* Games played again: socket 1 creates the room and adds AI players under
\* their default names, socket 2 joins, each client plays the first card it
\* may play, and either client sends playAgain at any time.  No client calls
\* trumps, and the game is followed through its first RoundsFollowed rounds.
RoundsFollowed == 2
Followed == current_round > FIRST_ROUND - RoundsFollowed
NextRematch ==
    \/ Followed /\ Tick
    \/ \E ws \in Clients :
       \/ ws = 1 /\ Create(ws, NameOf(ws))
       \/ ws = 2 /\ ~InGame(ws) /\ Join(ws, NameOf(ws), TRUE)
       \/ ws = 1 /\ state = WAITING /\ AddAI(ws, NoneStr)
       \/ ws = 1 /\ Followed /\ StartGame(ws)
       \/ Followed /\ \E c \in FirstCards(ws) : PlayCard(ws, c)
       \/ PlayAgain(ws)
       \/ Followed /\ WakeTrickWinner(ws)
       \/ Followed /\ WakeNextTrick(ws)
       \/ Followed /\ WakeAITrump(ws)
       \/ Followed /\ WakeAIPlay(ws)
SpecRematch == Init /\ [][NextRematch]_vars


\* An AI follows: in the room of InitDecks, in the first trick of the first
\* round, the creator has led and up to two AI players have followed with
\* cards of FollowTrickCards (the two decks hold each of them twice); the next
\* AI holds one or two cards of FollowHandCards and its pacing delay is over.
\* The hands of the others do not bear on the play and are left out.
FollowTrickCards == {Card(s, r, 0) : s \in {"S", "H", "D"}, r \in {9, 14}}
FollowHandCards ==
    {FreshDeck(2)[i] : i \in {k \in 1..CARDS_PER_DECK :
                                 /\ FreshDeck(2)[k].suit \in {"S", "H", "D"}
                                 /\ FreshDeck(2)[k].rank \in {2, 10, 14}}}
FollowLens == 1..3
InitFollow ==
    /\ created = TRUE
    /\ players = [k \in 1..DeckSeats |-> k]
    /\ spectators = <<>>
    /\ state = PLAYING
    /\ current_round = FIRST_ROUND
    /\ trump_suit \in {<<SUITS[k]>> : k \in 1..Len(SUITS)}
    /\ trick_starter = 1
    /\ \E n \in FollowLens : \E cs \in [1..n -> FollowTrickCards] :
          current_trick = [i \in 1..n |-> [player |-> players[i], card |-> cs[i]]]
    /\ current_player = players[Len(current_trick) + 1]
    /\ \E k \in 1..2 : \E hand \in [1..k -> FollowHandCards] :
          /\ \A i \in 1..(k - 1) : SortKeyLess(hand[i], hand[i + 1])
          /\ part = [q \in 1..DeckSeats |->
                       IF q = 1 THEN NewHuman(1, NameOf(1))
                       ELSE [NewAI(<<"A", "I", " ">> \o IntStr(q - 1)) EXCEPT
                               !.hand = IF q = current_player THEN hand ELSE <<>>]]
    /\ trump_caller = NoPlayer
    /\ sessions = <<[name |-> NameOf(1), game_code |-> RoomCode]>>
    /\ player_ws = <<[sid |-> 1, ws |-> 1]>>
    /\ task = [ws \in Sockets |->
                 [pc |-> IF ws = 1 THEN "ai_play" ELSE "idle", winner |-> NoPlayer,
                  due |-> 0, behind |-> {}]]
    /\ sent = <<>>
    /\ last = [op |-> "init", ws |-> NoSocket, p |-> NoPlayer, arg |-> <<>>, err |-> ""]
NextFollow == last.op = "init" /\ WakeAIPlay(1)
SpecFollow == InitFollow /\ [][NextFollow]_vars


\* AI players added late: socket 1 creates the room, starts the game and
\* plays the first card it may play, and sends addAI at any time, while the
\* room has a seat left for the model to follow.
NextLate ==
    \/ Followed /\ Tick
    \/ Create(1, NameOf(1))
    \/ AddAI(1, NoneStr)
    \/ Followed /\ StartGame(1)
    \/ Followed /\ \E c \in FirstCards(1) : PlayCard(1, c)
    \/ Followed /\ WakeTrickWinner(1)
    \/ Followed /\ WakeNextTrick(1)
    \/ Followed /\ WakeAITrump(1)
    \/ Followed /\ WakeAIPlay(1)
SpecLate == Init /\ [][NextLate]_vars


\* The game has been started and is not over.
Started == state \in {CALLING_TRUMPS, PLAYING}
\* A game played to its end: socket 1 creates the room, adds AI players in
\* the lobby and starts the game; no playAgain is sent.  The human plays the
\* first card it may play when it is its turn and calls hearts when it is to
\* call trumps.
HumanPlays ==
    /\ state = PLAYING /\ InGame(1) /\ current_player = find_player_in_game(1)
    /\ \E c \in FirstCards(1) : PlayCard(1, c)
HumanCalls ==
    /\ state = CALLING_TRUMPS /\ InGame(1) /\ trump_caller = find_player_in_game(1)
    /\ CallTrumps(1, <<"H">>)
NextLive ==
    \/ Tick
    \/ Create(1, NameOf(1))
    \/ state = WAITING /\ \E name \in AiNameInputs : AddAI(1, name)
    \/ state = WAITING /\ StartGame(1)
    \/ HumanPlays
    \/ HumanCalls
    \/ WakeTrickWinner(1)
    \/ WakeNextTrick(1)
    \/ WakeAITrump(1)
    \/ WakeAIPlay(1)
\* A step of the started game can be taken: time can pass, the sleep of the
\* coroutine of socket 1 is over, or it is the human's turn to play or to
\* call and its coroutine reads the socket.
CanStep ==
    \/ /\ \E ws \in Sockets : Sleeping(ws)
       /\ \A ws \in Sockets : Sleeping(ws) => task[ws].due > 0
    \/ Sleeping(1) /\ Awake(1)
    \/ /\ Idle(1) /\ state = PLAYING /\ InGame(1)
       /\ current_player = find_player_in_game(1) /\ FirstCards(1) # {}
    \/ /\ Idle(1) /\ state = CALLING_TRUMPS /\ InGame(1)
       /\ trump_caller = find_player_in_game(1)
\* Time passes (the event loop's clock runs), and the steps of the started
\* game are weakly fair: the event loop resumes a coroutine whose sleep is
\* over, and the human whose turn it is plays or calls in the end.  The
\* second conjunct is WF_vars(Started /\ NextLive) with its enabling
\* condition, Started /\ CanStep, written out.
Fairness ==
    /\ WF_vars(Tick)
    /\ \/ []<>(~(Started /\ CanStep))
       \/ []<><<Started /\ NextLive>>_vars
SpecLive == Init /\ [][NextLive]_vars /\ Fairness


\* ================================================================== claims
Plays(op) == op \in {"playCard", "aiPlay"}
\* The play with the greatest (trump, led suit, rank, -position).
BestPlay(plays, trump) ==
    CHOOSE i \in 1..Len(plays) : \A j \in 1..Len(plays) :
        LET ki == <<B2N(<<plays[i].card.suit>> = trump), B2N(plays[i].card.suit = plays[1].card.suit),
                    plays[i].card.rank, -i>>
            kj == <<B2N(<<plays[j].card.suit>> = trump), B2N(plays[j].card.suit = plays[1].card.suit),
                    plays[j].card.rank, -j>>
        IN i = j \/ LexLess(kj, ki)

\* C1: every successful play_card by P removes exactly one card matching the
\* named (suit, rank) from P's hand, appends exactly the play (P, card) to the
\* trick, leaves every other hand alone, and makes current_player the
\* participant that follows P in players, cyclically.
C1_PlayCardFrame ==
    [][(Plays(last'.op) /\ last'.err = "") =>
         LET P == last'.p
             c == FromString(last'.arg)
             h == part[P].hand
         IN /\ \E i \in 1..Len(h) : CardEq(h[i], c) /\ part'[P].hand = RemoveAt(h, i)
            /\ current_trick' = Append(current_trick, [player |-> P, card |-> c])
            /\ \A q \in 1..Len(part) : q # P => part'[q].hand = part[q].hand
            /\ Len(part') = Len(part)
            /\ players' = players
            /\ \E i \in 1..Len(players) :
                  players[i] = P /\ current_player' = players[(i % Len(players)) + 1]]_vars

\* The legal-play conditions for the human participant P naming card c.
LegalPlay(P, c) ==
    /\ state = PLAYING
    /\ P = current_player
    /\ \A i \in 1..Len(current_trick) : current_trick[i].player # P
    /\ \E i \in 1..Len(part[P].hand) : part[P].hand[i].suit = c.suit /\ part[P].hand[i].rank = c.rank
    /\ \/ current_trick = <<>>
       \/ \A i \in 1..Len(part[P].hand) : part[P].hand[i].suit # current_trick[1].card.suit
       \/ c.suit = current_trick[1].card.suit
\* C2: a playCard message of participant P is accepted exactly when the room is
\* PLAYING, P is the current player, P has no play in the current trick, P's
\* hand holds a card of the named (suit, rank), and the card follows the led
\* suit unless the trick is empty or P is void in the led suit; a holder of
\* the led suit who names a card of his hand in another suit, all else being
\* in order, is told "Must follow suit".
C2_AcceptedIffLegal ==
    [][last'.op = "playCard" =>
         \A card_str \in CardInputs(last'.ws) :
         PlayCard(last'.ws, card_str) =>
           LET P == last'.p
               c == FromString(card_str)
           IN /\ (last'.err = "") <=> LegalPlay(P, c)
              /\ (/\ state = PLAYING /\ P = current_player /\ current_trick # <<>>
                  /\ \A i \in 1..Len(current_trick) : current_trick[i].player # P
                  /\ \E i \in 1..Len(part[P].hand) : CardEq(part[P].hand[i], c)
                  /\ \E i \in 1..Len(part[P].hand) : part[P].hand[i].suit = current_trick[1].card.suit
                  /\ c.suit # current_trick[1].card.suit)
                 => last'.err = "Must follow suit"]_vars
\* A void player's off-suit card was accepted.
C2_Witness ==
    /\ last.op = "playCard" /\ last.err = ""
    /\ Len(current_trick) >= 2
    /\ current_trick[Len(current_trick)].player = last.p
    /\ current_trick[Len(current_trick)].card.suit # current_trick[1].card.suit

\* C3: a rejected playCard, callTrumps, startGame or join leaves the room as
\* it was: phase, players, spectators, hands, trick counts, trick, current
\* player, trick starter, trump caller, trump suit and round.
C3_RejectedUnchanged ==
    [][(last'.op \in {"playCard", "callTrumps", "startGame", "join"} /\ last'.err # "") =>
         UNCHANGED <<players, spectators, part, state, current_round, trump_suit,
                     current_trick, current_player, trick_starter, trump_caller>>]_vars
\* The trump caller's unknown suit was refused while trumps were being called.
C3_Witness ==
    /\ last.op = "callTrumps" /\ last.err = "Invalid suit"
    /\ state = CALLING_TRUMPS /\ last.p = trump_caller

FourSuits == {<<SUITS[i]>> : i \in 1..Len(SUITS)}
\* C4: callTrumps is accepted, and sets the trump, only for a suit that is
\* exactly one of the four suits; the empty string and strings of several
\* suit characters are refused.
C4_OnlyFourSuits ==
    (last.op = "callTrumps" /\ last.err = "") => (last.arg \in FourSuits /\ trump_suit = last.arg)

\* C5: the start of the first round (current_round = 7) takes the room straight
\* to PLAYING with no trump call: every active player holds 7 cards, the trump
\* is one of the four suits, and current_player is an active player and equals
\* trick_starter.
C5_FirstRoundStart ==
    (last.op = "startGame" /\ last.err = "") =>
       /\ current_round = FIRST_ROUND
       /\ state = PLAYING
       /\ \A i \in 1..Len(players) : Len(part[players[i]].hand) = 7
       /\ trump_suit \in FourSuits
       /\ \E i \in 1..Len(players) : current_player = players[i]
       /\ current_player = trick_starter
       /\ current_trick = <<>>
\* Three players were dealt the first round.
C5_Witness ==
    /\ last.op = "startGame" /\ last.err = ""
    /\ Len(players) = 3 /\ state = PLAYING

\* C6: nothing sent by the start of the first round carries the phase
\* calling_trumps.
C6_NoCallingTrumpsBroadcast ==
    (last.op = "startGame" /\ last.err = "") =>
       \A i \in 1..Len(sent) : sent[i].phase # CALLING_TRUMPS

\* ------------------------------------------- determine_winner on its own
\* The tricks determine_winner is applied to: one to three plays of cards
\* drawn with repetition (several decks), by three seated participants in
\* turn order from any leader, under every trump suit.
TrickCards == {Card(s, r, 0) : s \in {"S", "H", "D"}, r \in {2, 14}}
TrickRosters ==
    { << NewHuman(1, <<"a">>), NewHuman(2, <<"b">>), NewAI(<<"A", "I", " ", "1">>) >>,
      << NewHuman(1, <<"a">>), NewAI(<<"x">>), NewAI(<<"x">>) >> }
TrickLens == 1..3
InitTrick ==
    /\ created = TRUE
    /\ part \in TrickRosters
    /\ players = <<1, 2, 3>>
    /\ spectators = <<>>
    /\ state = PLAYING
    /\ current_round = 1
    /\ trump_suit \in FourSuits
    /\ trick_starter \in {1, 2, 3}
    /\ \E n \in TrickLens : \E cs \in [1..n -> TrickCards] :
          current_trick = [i \in 1..n |->
              [player |-> players[((trick_starter + i - 2) % 3) + 1], card |-> cs[i]]]
    /\ current_player = players[((trick_starter + Len(current_trick) - 1) % 3) + 1]
    /\ trump_caller = NoPlayer
    /\ LET hs == SelectSeq(<<1, 2, 3>>, LAMBDA q : part[q].kind = HUMAN)
       IN /\ sessions = [i \in 1..Len(hs) |-> [name |-> part[hs[i]].name, game_code |-> RoomCode]]
          /\ player_ws = [i \in 1..Len(hs) |-> [sid |-> i, ws |-> part[hs[i]].ws]]
    /\ task = [ws \in Sockets |-> [pc |-> "idle", winner |-> NoPlayer, due |-> 0, behind |-> {}]]
    /\ sent = <<>>
    /\ last = [op |-> "init", ws |-> NoSocket, p |-> NoPlayer, arg |-> <<>>, err |-> ""]
\* Trick.determine_winner applied to the trick on the table
DetermineWinner ==
    /\ last.op = "init"
    /\ last' = [op |-> "determine", ws |-> NoSocket,
                p |-> determine_winner(part, current_trick, trump_suit),
                arg |-> <<>>, err |-> ""]
    /\ UNCHANGED <<created, players, spectators, part, state, current_round, trump_suit,
                   current_trick, current_player, trick_starter, trump_caller,
                   sessions, player_ws, task, sent>>
NextTrick == DetermineWinner
SpecTrick == InitTrick /\ [][NextTrick]_vars

\* C7: determine_winner returns the participant of the play whose key
\* (card is trump, card is of the led suit, rank, -position) is maximal: a
\* trump beats every non-trump, a led-suit card beats an off-suit non-trump,
\* and of plays with the same (suit, rank) the earliest wins.
C7_DetermineWinner ==
    last.op = "determine" =>
       LET plays == current_trick
           w == BestPlay(plays, trump_suit)
           IsTrump(i) == <<plays[i].card.suit>> = trump_suit
           IsLed(i) == plays[i].card.suit = plays[1].card.suit
       IN /\ last.p = plays[w].player
          /\ \A i \in 1..Len(plays) :
               /\ IsTrump(i) => IsTrump(w)
               /\ (IsLed(i) /\ ~IsTrump(w)) => IsLed(w)
               /\ (plays[i].card.suit = plays[w].card.suit) => plays[i].card.rank <= plays[w].card.rank
               /\ (plays[i].card.suit = plays[w].card.suit /\ plays[i].card.rank = plays[w].card.rank)
                     => w <= i
\* The winning card was played twice, by same-named AI players, and the first
\* of the two plays took the trick from a lower card played in between.
C7_Witness ==
    /\ last.op = "determine"
    /\ Len(current_trick) = 3
    /\ part[2].name = part[3].name /\ trick_starter = 2
    /\ current_trick[1].card = current_trick[2].card
    /\ <<current_trick[1].card.suit>> = trump_suit
    /\ last.p = 2

\* C8: the play that completes a trick raises exactly one participant's
\* tricks_won, by one, and it is the trick winner's; a play that does not
\* complete the trick raises none.  After the pause the winner is both
\* current_player and trick_starter and the trick is empty, and a trick is
\* only ever led by the trick starter.
C8_TrickCompletion ==
    [][/\ (Plays(last'.op) /\ last'.err = "") =>
            LET done == Len(current_trick') = Len(players')
                w == current_trick'[BestPlay(current_trick', trump_suit')].player
            IN \A q \in 1..Len(part') :
                  part'[q].tricks_won =
                     part[q].tricks_won + (IF done /\ q = w THEN 1 ELSE 0)
       /\ last'.op = "trickWinner" =>
            LET w == current_trick[BestPlay(current_trick, trump_suit)].player
            IN /\ last'.p = w
               /\ current_player' = w /\ trick_starter' = w
               /\ current_trick' = <<>>
               /\ \A q \in 1..Len(part') : part'[q].tricks_won = part[q].tricks_won
       /\ (Plays(last'.op) /\ last'.err = "" /\ current_trick = <<>>) =>
            last'.p = trick_starter]_vars
\* In a room of three the winner of a trick, not its leader, has been made
\* current player and trick starter.
C8_Witness ==
    /\ last.op = "trickWinner"
    /\ Len(players) = 3 /\ current_trick = <<>>
    /\ current_player = last.p /\ trick_starter = last.p
    /\ part[last.p].tricks_won >= 1
    /\ \E q \in 1..Len(part) : q # last.p /\ part[q].tricks_won >= 1

\* The round is over: every active player's hand is empty.
RoundOver == \A i \in 1..Len(players) : part[players[i]].hand = <<>>
InPlayers(q) == \E i \in 1..Len(players) : players[i] = q
StaysIn(q) == \E i \in 1..Len(players') : players'[i] = q
\* C9: at a round end every participant taken out of players won no trick in
\* the round just played and every participant left in players won at least
\* one; an eliminated human is in spectators and is sent "eliminated" and then
\* a gameState with isSpectator; and when a new round follows, current_round
\* is smaller by exactly one.
C9_RoundTransition ==
    [][(last'.op = "nextTrick" /\ RoundOver) =>
         /\ \A q \in 1..Len(part) :
               /\ (InPlayers(q) /\ ~StaysIn(q)) => part[q].tricks_won = 0
               /\ StaysIn(q) => (InPlayers(q) /\ part[q].tricks_won >= 1)
               /\ (InPlayers(q) /\ ~StaysIn(q) /\ part[q].kind = HUMAN) =>
                     /\ \E i \in 1..Len(spectators') : spectators'[i] = q
                     /\ \E i \in 1..Len(sent') : \E j \in (i + 1)..Len(sent') :
                           /\ sent'[i].to = part[q].ws /\ sent'[i].type = "eliminated"
                           /\ sent'[j].to = part[q].ws /\ sent'[j].type = "gameState"
                           /\ sent'[j].info = "isSpectator"
         /\ IF state' = FINISHED THEN current_round' = current_round
            ELSE current_round' = current_round - 1 /\ current_round' >= 1]_vars
\* A human was eliminated at the end of a round that two others survived.
C9_Witness ==
    /\ last.op = "nextTrick" /\ state = CALLING_TRUMPS
    /\ Len(players) = 2 /\ Len(spectators) = 1
    /\ part[spectators[1]].kind = HUMAN
    /\ current_round = 6

\* C10: after a round end that does not finish the game, trump_caller is a
\* surviving player whose tricks_won in the round just ended was the greatest
\* among the survivors, the trump is undefined, the state is CALLING_TRUMPS and
\* current_player = trick_starter = trump_caller; the trump stays undefined
\* while trumps are being called, and the caller leads once it has chosen.
C10_NextTrumpCaller ==
    [][/\ (last'.op = "nextTrick" /\ RoundOver /\ state' # FINISHED) =>
            /\ StaysIn(trump_caller')
            /\ \A q \in 1..Len(part) :
                  StaysIn(q) => part[q].tricks_won <= part[trump_caller'].tricks_won
            /\ state' = CALLING_TRUMPS
       /\ state' = CALLING_TRUMPS =>
            /\ trump_suit' = NoneStr
            /\ current_player' = trump_caller' /\ trick_starter' = trump_caller'
       /\ (last'.op \in {"callTrumps", "aiTrump"} /\ last'.err = "") =>
            /\ state' = PLAYING /\ current_trick' = <<>>
            /\ trump_caller' = trump_caller
            /\ current_player' = trump_caller /\ trick_starter' = trump_caller]_vars
\* Three players survived a round and one of them is to call trumps.
C10_Witness ==
    /\ last.op = "nextTrick" /\ state = CALLING_TRUMPS
    /\ Len(players) = 3 /\ current_round = 6
    /\ trump_caller # NoPlayer /\ current_player = trump_caller

\* The active players that won a trick in the round, in seating order.
Survivors == SelectSeq(players, LAMBDA q : part[q].tricks_won > 0)
C13_ResetIsFresh ==
    [][(last'.op = "playAgain" /\ last'.err = "") =>
         /\ state' = WAITING /\ current_round' = FIRST_ROUND
         /\ trump_suit' = NoneStr /\ current_player' = NoPlayer
         /\ trick_starter' = NoPlayer /\ trump_caller' = NoPlayer
         /\ current_trick' = <<>> /\ spectators' = <<>>
         /\ players' = players \o spectators
         /\ Len(part') = Len(part)
         /\ \A q \in 1..Len(part') :
               /\ part'[q].hand = <<>> /\ part'[q].tricks_won = 0
               /\ part'[q].name = part[q].name /\ part'[q].kind = part[q].kind]_vars
\* A finished game was reset: a participant eliminated in it is back in
\* players behind one who joined after it.
C13_Witness ==
    /\ last.op = "playAgain" /\ last.err = ""
    /\ state = WAITING /\ spectators = <<>>
    /\ \E i \in 1..Len(sent) : sent[i].type = "playAgainSuccess"
    /\ \E i \in 1..(Len(players) - 1) : players[i] > players[i + 1]

\* Some coroutine stands in a pause of handle_trick_completion: a trick is
\* complete and neither nextTrick nor the round end has been issued.
InTrickPause == \E ws \in Sockets : task[ws].pc \in {"sleep2", "sleep1"}
\* C19: a playCard message handled during the pauses that follow a complete
\* trick changes no hand and not the trick.
C19_NoPlayInPause ==
    [][(last'.op = "playCard" /\ InTrickPause) =>
         /\ current_trick' = current_trick
         /\ \A q \in 1..Len(part) : part'[q].hand = part[q].hand]_vars

\* A handler of socket ws is suspended inside an engine operation.
Suspended(ws) == task[ws].pc \in {"sleep2", "sleep1", "ai_trump", "ai_play"}
ClientOps == {"playCard", "callTrumps", "startGame", "addAI", "playAgain"}
\* C20: while the handler of one socket is suspended inside an engine
\* operation, a message handled on another socket leaves the room as it was.
C20_Serialised ==
    [][(last'.op \in ClientOps /\ \E ws \in Sockets \ {last'.ws} : Suspended(ws)) =>
         UNCHANGED <<players, spectators, part, state, current_round, trump_suit,
                     current_trick, current_player, trick_starter, trump_caller>>]_vars

\* C15: a message that raises an error is answered with exactly one error
\* message, sent to the socket it came from and carrying the error text;
\* nothing is sent to anyone else and the socket's read loop goes on.
C15_ErrorsCaught ==
    [][(last'.ws # NoSocket /\ last'.err # "" /\ last'.op \in ClientOps \cup {"join", "reconnect"}) =>
         /\ Len(sent') = 1
         /\ sent'[1].to = last'.ws /\ sent'[1].type = "error" /\ sent'[1].info = last'.err
         /\ task'[last'.ws].pc = "idle"]_vars

\* C14: a join is refused with "Game not found" when the code names no room,
\* with "Game already started" when the room is not WAITING and with "Game
\* full" when it has MAX_PLAYERS players or more, and then no session and no
\* participant is added; an accepted join happens in a WAITING room with
\* fewer than MAX_PLAYERS players, appends one Human of the given name to
\* players and adds one session of that name and room.
C14_Join ==
    [][last'.op = "join" =>
         IF last'.err = ""
         THEN /\ created /\ state = WAITING /\ Len(players) < MAX_PLAYERS
              /\ part' = Append(part, NewHuman(last'.ws, last'.arg))
              /\ players' = Append(players, Len(part) + 1)
              /\ spectators' = spectators
              /\ sessions' = Append(sessions, [name |-> last'.arg, game_code |-> RoomCode])
              /\ \E i \in 1..Len(player_ws') :
                    player_ws'[i] = [sid |-> Len(sessions'), ws |-> last'.ws]
         ELSE /\ last'.err \in {"Game not found", "Game already started", "Game full"}
              /\ ~created => last'.err = "Game not found"
              /\ last'.err = "Game already started" => (created /\ state # WAITING)
              /\ last'.err = "Game full" =>
                    (created /\ state = WAITING /\ Len(players) >= MAX_PLAYERS)
              /\ sessions' = sessions /\ part' = part
              /\ players' = players /\ spectators' = spectators]_vars
\* A join was refused by a room of exactly MAX_PLAYERS players.
C14_Witness ==
    /\ last.op = "join" /\ last.err = "Game full"
    /\ Len(players) = MAX_PLAYERS /\ state = WAITING

\* C12: a playAgain takes a FINISHED room to WAITING, and in any other phase
\* it leaves the phase, the hands, the trick counts, the trick and the turn
\* fields as they were.
C12_ResetOnlyFinished ==
    [][last'.op = "playAgain" =>
         IF state = FINISHED THEN state' = WAITING
         ELSE /\ state' = state /\ part' = part /\ current_trick' = current_trick
              /\ current_player' = current_player /\ trick_starter' = trick_starter
              /\ trump_caller' = trump_caller /\ current_round' = current_round]_vars

\* The participant for whom token session_id was issued: sessions and Human
\* participants are created together, in the same order.
Owner(session_id) ==
    SelectSeq([q \in 1..Len(part) |-> q], LAMBDA q : part[q].kind = HUMAN)[session_id]
\* C16: an accepted reconnect with token T binds the new socket to the Human
\* for whom T was issued, changes no other participant's socket, and sends
\* one gameState, to the reconnecting socket.
C16_ReconnectOwner ==
    [][(last'.op = "reconnect" /\ last'.err = "") =>
         /\ part'[Owner(last'.arg)].ws = last'.ws
         /\ \A q \in 1..Len(part) : q # Owner(last'.arg) => part'[q] = part[q]
         /\ Len(sent') = 1 /\ sent'[1].to = last'.ws /\ sent'[1].type = "gameState"]_vars

\* The server state without the socket bound to session T and to the humans
\* of its name, and without the messages sent.
Forget(g, T) ==
    [g EXCEPT !.out = <<>>,
              !.player_ws = [i \in 1..Len(@) |-> IF @[i].sid = T THEN [@[i] EXCEPT !.ws = NoSocket]
                                                  ELSE @[i]],
              !.part = [q \in 1..Len(@) |->
                          IF @[q].kind = HUMAN /\ @[q].name = g.sessions[T].name
                          THEN [@[q] EXCEPT !.ws = NoSocket] ELSE @[q]]]
\* C17: after an accepted reconnect with token T, a second reconnect with T,
\* on whatever socket, leaves sessions, the room, players and spectators as
\* they are, but for the socket bound to the session and its participant.
C17_ReconnectIdempotent ==
    [][(last'.op = "reconnect" /\ last'.err = "") =>
         LET T == last'.arg
         IN /\ \A ws \in Sockets :
                  LET twice == handle_reconnection(Room', ws, T)
                  IN twice.exc = "" /\ Forget(twice, T) = Forget(Room', T)
            /\ (last.op = "reconnect" /\ last.err = "" /\ last.arg = T /\ last.ws = last'.ws) =>
                  /\ Room' = Room]_vars
\* A client whose socket closed during play reconnected with its token.
C17_Witness ==
    /\ last.op = "reconnect" /\ last.err = "" /\ last.arg = 2
    /\ state = PLAYING /\ task[2].pc = "dead"
    /\ \E i \in 1..Len(player_ws) : player_ws[i] = [sid |-> 2, ws |-> 3]

\* C18: a socket that closes takes only its entry out of player_ws: the room,
\* its participants and the sessions stay as they are; and when a client
\* whose socket has closed reconnects with its token, the messages of the new
\* socket act for the participant it was, whose hand, tricks and turn are as
\* before.
C18_CloseKeepsSeat ==
    [][/\ last'.op = "close" =>
            /\ UNCHANGED <<players, spectators, part, state, current_round, trump_suit,
                           current_trick, current_player, trick_starter, trump_caller,
                           sessions>>
            /\ \A i \in 1..Len(player_ws') : \E j \in 1..Len(player_ws) :
                  player_ws'[i] = player_ws[j]
            /\ \A j \in 1..Len(player_ws) :
                  player_ws[j].ws # last'.ws => \E i \in 1..Len(player_ws') :
                                                  player_ws'[i] = player_ws[j]
       /\ (/\ last'.op = "reconnect" /\ last'.err = ""
           /\ task[part[Owner(last'.arg)].ws].pc = "dead") =>
            /\ LET all == players \o spectators
               IN \E i \in 1..Len(all) :
                     /\ all[i] = Owner(last'.arg) /\ part'[all[i]].ws = last'.ws
                     /\ \A k \in 1..(i - 1) : part'[all[k]].ws # last'.ws
            /\ part'[Owner(last'.arg)].hand = part[Owner(last'.arg)].hand
            /\ part'[Owner(last'.arg)].tricks_won = part[Owner(last'.arg)].tricks_won
            /\ UNCHANGED <<players, spectators, current_player, current_trick>>]_vars

\* It is an AI's turn: to call trumps, or to play.
AITurn ==
    \/ state = CALLING_TRUMPS /\ IsAI(Room, trump_caller)
    \/ state = PLAYING /\ IsAI(Room, current_player)
\* The steps that end in handle_ai_turns.
DriveOps == {"startGame", "playCard", "callTrumps", "nextTrick", "aiTrump", "aiPlay"}
\* C21: an AI's turn never waits for a message: when a handler that has come
\* to handle_ai_turns goes back to reading its socket, it is no AI's turn;
\* and whenever it is an AI's turn, some handler is suspended in the engine.
C21_AITurnsDriven ==
    /\ [][(/\ last'.op \in DriveOps /\ last'.err = ""
           /\ task'[last'.ws].pc = "idle") => ~AITurn']_vars
    /\ [](AITurn => \E ws \in Sockets : Suspended(ws))

\* The least number of 52-card decks, one at least, that hold `needed` cards.
DecksFor(needed) ==
    CHOOSE d \in 1..(needed + 1) :
        /\ d * CARDS_PER_DECK >= needed
        /\ d = 1 \/ (d - 1) * CARDS_PER_DECK < needed
\* The cards (as objects) in the hands of the active players, hand by hand.
RECURSIVE HandsOf(_)
HandsOf(ps) ==
    IF Len(ps) = 0 THEN <<>> ELSE part[ps[1]].hand \o HandsOf(Tail(ps))
\* C22: deal_cards never fails; after it every active player holds exactly
\* current_round cards and no trick, no card object is held twice, the deck
\* dealt from is DecksFor(current_round * len(players)) standard decks (each
\* suit and rank that many times), and whoever is not an active player keeps
\* what it had.
C22_Deal ==
    last.op = "deal" =>
       LET n == Len(players)
           held == HandsOf(players)
           deck == create_deck(current_round, n, last.arg)
           D == DecksFor(current_round * n)
       IN /\ last.err = ""
          /\ \A i \in 1..n : /\ Len(part[players[i]].hand) = current_round
                             /\ part[players[i]].tricks_won = 0
          /\ \A i, j \in 1..Len(held) : i # j => held[i].inst # held[j].inst
          /\ Len(deck) = D * CARDS_PER_DECK
          /\ \A i, j \in 1..Len(deck) : i # j => deck[i].inst # deck[j].inst
          /\ \A k \in 1..4, r \in 2..14 :
                Cardinality({i \in 1..Len(deck) : deck[i].suit = SUITS[k] /\ deck[i].rank = r}) = D
          /\ \A i \in 1..Len(held) : \E j \in 1..Len(deck) : deck[j] = held[i]
          /\ \A i \in 1..Len(spectators) :
                /\ part[spectators[i]].hand = <<StaleCard>>
                /\ part[spectators[i]].tricks_won = 1
\* Twenty-one players were dealt seven cards from three decks: two of them
\* hold the same card of different decks.
C22_Witness ==
    /\ last.op = "deal" /\ last.err = ""
    /\ Len(players) = MAX_PLAYERS /\ current_round = FIRST_ROUND
    /\ \E p, q \in 1..Len(players) :
          /\ p # q
          /\ \E i \in 1..Len(part[p].hand), j \in 1..Len(part[q].hand) :
                /\ CardEq(part[p].hand[i], part[q].hand[j])
                /\ part[p].hand[i].inst # part[q].hand[j].inst

\* C23 as stated: while the room is PLAYING, current_player is one of players
\* and the trick holds fewer plays than there are players.
C23_TurnAndOpenTrick ==
    state = PLAYING =>
       /\ InPlayers(current_player)
       /\ Len(current_trick) < Len(players)
\* C23: while the room is PLAYING, current_player is one of players, and the
\* trick holds fewer plays than there are players, or exactly as many while
\* the handler that completed it stands in the pause before trickWinner.
C23_TurnAndTrick ==
    state = PLAYING =>
       /\ InPlayers(current_player)
       /\ \/ Len(current_trick) < Len(players)
          \/ /\ Len(current_trick) = Len(players)
             /\ \E ws \in Sockets : task[ws].pc = "sleep2"
\* A trick of three players is complete and on the table during the pause.
C23_Witness ==
    /\ state = PLAYING /\ Len(players) = 3 /\ Len(current_trick) = 3
    /\ \E ws \in Sockets : task[ws].pc = "sleep2" /\ task[ws].due > 0
    /\ InPlayers(current_player)

\* How many cards of the suit and rank of c lie in the trick and in the hands.
CopiesInPlay(c) ==
    Cardinality({i \in 1..Len(current_trick) : CardEq(current_trick[i].card, c)})
    + Cardinality({<<q, i>> \in (1..Len(part)) \X (1..FIRST_ROUND) :
                      i <= Len(part[q].hand) /\ CardEq(part[q].hand[i], c)})
\* C24: no card object of the trick is in a hand, and a suit and rank is never
\* more often in the trick and the hands together than there are decks; an
\* accepted play takes exactly one card object out of the player's hand, a
\* card of the suit and rank played, and leaves every other card object of
\* every hand where it was.
C24_TrickCardsLeftHands ==
    /\ [](\A t \in 1..Len(current_trick) :
             /\ \A q \in 1..Len(part) : \A i \in 1..Len(part[q].hand) :
                   part[q].hand[i].inst # current_trick[t].card.inst
             /\ CopiesInPlay(current_trick[t].card)
                   <= DecksFor(current_round * Len(players)))
    /\ [][(Plays(last'.op) /\ last'.err = "") =>
            LET p == last'.p
                card == current_trick'[Len(current_trick')].card
            IN /\ current_trick' = Append(current_trick, [player |-> p, card |-> card])
               /\ \E i \in 1..Len(part[p].hand) :
                     /\ CardEq(part[p].hand[i], card)
                     /\ part'[p].hand = RemoveAt(part[p].hand, i)
               /\ \A q \in 1..Len(part) : q # p => part'[q].hand = part[q].hand]_vars
\* A player held the same card of two decks and played one: the other is
\* still in the hand, and the card in the trick is neither.
C24_Witness ==
    /\ Plays(last.op) /\ last.err = "" /\ Len(current_trick) > 0
    /\ LET play == current_trick[Len(current_trick)]
       IN /\ play.player = last.p
          /\ \E i \in 1..Len(part[last.p].hand) :
                /\ CardEq(part[last.p].hand[i], play.card)
                /\ part[last.p].hand[i].inst # play.card.inst

InSpectators(q) == \E i \in 1..Len(spectators) : spectators[i] = q
\* C25 as stated: every participant ever created is a player or a spectator.
C25_NoneLost ==
    \A q \in 1..Len(part) : InPlayers(q) \/ InSpectators(q)
\* C25: every Human ever created is a player or a spectator, and nobody is
\* both or is listed twice; spectators are Humans; an AI is a player until a
\* round end at which it holds no trick, and from then on it is neither a
\* player nor a spectator, playAgain included.
C25_HumansKept ==
    /\ [](/\ \A q \in 1..Len(part) : part[q].kind = HUMAN => (InPlayers(q) \/ InSpectators(q))
          /\ \A i \in 1..Len(spectators) : part[spectators[i]].kind = HUMAN
          /\ LET all == players \o spectators
             IN \A i, j \in 1..Len(all) : i # j => all[i] # all[j])
    /\ [][\A q \in 1..Len(part) :
            /\ (InPlayers(q) /\ ~StaysIn(q) /\ part[q].kind = AI) =>
                  (last'.op = "nextTrick" /\ part[q].tricks_won = 0)
            /\ ~InPlayers(q) => (part'[q].kind = AI => ~StaysIn(q))]_vars
\* After a game in which an AI was eliminated the room was reset: the humans
\* are the players, a former spectator behind a former player, and the AI is gone.
C25_Witness ==
    /\ last.op = "playAgain" /\ state = WAITING /\ spectators = <<>>
    /\ \E q \in 1..Len(part) : part[q].kind = AI /\ ~InPlayers(q)
    /\ \E i \in 1..(Len(players) - 1) : players[i] > players[i + 1]

\* The types of the messages the room broadcasts.
BroadcastTypes ==
    {"playerJoined", "cardPlayed", "trickComplete", "trickWinner", "nextTrick",
     "roundEnd", "roundStart", "trumpSelection", "gameOver", "gameState"}
\* The sockets of the Humans of the room, players before spectators.
HumanSockets ==
    LET hs == Humans(Room) IN [i \in 1..Len(hs) |-> part[hs[i]].ws]
\* The sockets the broadcasts of type T of the last step went to, in order
\* (the gameState sent to a new spectator alone is no broadcast).
Receivers(T) ==
    LET ms == SelectSeq(sent, LAMBDA m : m.type = T /\ (m.type = "gameState" => m.info = ""))
    IN [i \in 1..Len(ms) |-> ms[i].to]
RECURSIVE Repeat(_, _)
Repeat(seq, k) == IF k = 0 THEN <<>> ELSE seq \o Repeat(seq, k - 1)
\* The broadcast a step issues whenever it is accepted.
Issues(op) ==
    CASE op \in {"join", "addAI"} -> {"playerJoined"}
      [] Plays(op) -> {"cardPlayed"}
      [] op = "trickWinner" -> {"trickWinner"}
      [] op \in {"playAgain", "startGame"} -> {"gameState"}
      [] op \in {"callTrumps", "aiTrump"} -> {"roundStart", "gameState"}
      [] OTHER -> {}
\* C26: each broadcast of a step goes once to the socket of every Human that
\* is a player or a spectator when it is issued, in that order, and to nobody
\* else: no message goes to an AI, and a spectator gets every broadcast.
C26_Broadcast ==
    [][last'.op \notin {"reconnect", "tick", "close"} =>
         /\ \A i \in 1..Len(sent') : sent'[i].to # NoSocket
         /\ \A T \in BroadcastTypes :
               \E k \in 0..2 :
                  /\ Receivers(T)' = Repeat(HumanSockets', k)
                  /\ (last'.err = "" /\ T \in Issues(last'.op)) => k >= 1
         /\ (last'.op = "nextTrick" /\ last'.err = "" /\ Len(players') > 0) =>
               \E T \in {"nextTrick", "roundEnd", "gameOver"} :
                  Receivers(T)' = HumanSockets']_vars
\* A trick was won in a round that an eliminated Human looks on at: the
\* trickWinner broadcast went to the player and to the spectator.
C26_Witness ==
    /\ last.op = "trickWinner" /\ last.err = ""
    /\ Len(spectators) = 1 /\ Len(players) = 2
    /\ \E i \in 1..Len(players) : part[players[i]].kind = AI
    /\ \E i \in 1..Len(sent) :
          sent[i].type = "trickWinner" /\ sent[i].to = part[spectators[1]].ws

\* c beats w: a trump beats a card that is none, and a card beats a lower card
\* of its suit.
Beats(c, w, trump) ==
    \/ <<c.suit>> = trump /\ <<w.suit>> # trump
    \/ c.suit = w.suit /\ c.rank > w.rank
\* C27: the card the AI takes for the winning one is the card of the play
\* Trick.determine_winner selects, for every trick on the table; and an AI
\* that follows plays a card it may play (of the suit led if it holds one)
\* that beats the winning card and is the lowest in rank to do so, or, if it
\* may play none that does, a card it may play of the lowest rank.
C27_FollowCard ==
    /\ []((state = PLAYING /\ Len(current_trick) > 0) =>
            CardEq(get_current_winning_card(current_trick, trump_suit),
                   current_trick[WinnerPos(part, current_trick, trump_suit)].card))
    /\ [][(last'.op = "aiPlay" /\ last'.err = "" /\ Len(current_trick) > 0) =>
            LET hand == part[last'.p].hand
                led == current_trick[1].card.suit
                holds_led == \E i \in 1..Len(hand) : hand[i].suit = led
                playable == {i \in 1..Len(hand) : holds_led => hand[i].suit = led}
                w == current_trick[BestPlay(current_trick, trump_suit)].card
                winners == {i \in playable : Beats(hand[i], w, trump_suit)}
                among == IF winners # {} THEN winners ELSE playable
                card == current_trick'[Len(current_trick')].card
            IN \E i \in among :
                  /\ CardEq(hand[i], card)
                  /\ \A j \in among : hand[i].rank <= hand[j].rank
                  /\ part'[last'.p].hand = RemoveAt(hand, i)]_vars
\* The second play took the trick from the card led, and the AI beat it with
\* the lower of two cards of its hand that do.
C27_Witness ==
    /\ last.op = "aiPlay" /\ last.err = "" /\ Len(current_trick) = 3
    /\ LET prior == SubSeq(current_trick, 1, 2)
           card == current_trick[3].card
           hand == part[last.p].hand
       IN /\ WinnerPos(part, prior, trump_suit) = 2
          /\ Beats(card, prior[2].card, trump_suit)
          /\ Len(hand) = 1 /\ Beats(hand[1], prior[2].card, trump_suit)
          /\ hand[1].rank > card.rank

\* C28: an AI turn never ends in a GameError; and when the AI whose turn it
\* is in PLAYING holds a card, the card it chooses passes validate_play: it is
\* a card of its hand, of the suit led if the trick is begun and the hand
\* holds that suit, and the turn does what play_card does with it and no
\* more: that card leaves the hand and joins the trick.
C28_AIPlaysLegal ==
    [][last'.op = "aiPlay" =>
         /\ last'.err \in {"", Crash}
         /\ (/\ state = PLAYING /\ IsAI(Room, current_player)
             /\ part[current_player].hand # <<>>) =>
               LET hand == part[current_player].hand
                   led == LedSuit(current_trick)
               IN /\ last'.err = "" /\ last'.p = current_player
                  /\ validate_play(Room, current_player, FromString(last'.arg)) = ""
                  /\ \E i \in 1..Len(hand) :
                        /\ CardStr(hand[i]) = last'.arg
                        /\ (/\ Len(current_trick) > 0
                            /\ \E j \in 1..Len(hand) : hand[j].suit = led) => hand[i].suit = led
                        /\ part'[current_player].hand = RemoveAt(hand, i)
                        /\ current_trick' = Append(current_trick,
                              [player |-> current_player, card |-> [hand[i] EXCEPT !.inst = 0]])
                  /\ \A q \in 1..Len(part) :
                        q # current_player => part'[q].hand = part[q].hand]_vars
\* An AI followed suit although it holds a card of the trump suit.
C28_Witness ==
    /\ last.op = "aiPlay" /\ last.err = "" /\ Len(current_trick) >= 2
    /\ current_trick[Len(current_trick)].player = last.p
    /\ current_trick[Len(current_trick)].card.suit = LedSuit(current_trick)
    /\ <<LedSuit(current_trick)>> # trump_suit
    /\ \E i \in 1..Len(part[last.p].hand) : <<part[last.p].hand[i].suit>> = trump_suit

\* The handlers that stand in the pacing delay of handle_ai_turns.
AILoops == {ws \in Sockets : task[ws].pc \in {"ai_play", "ai_trump"}}
\* C29: when handle_ai_turns wakes from its delay to play, the room is PLAYING
\* and current_player is an AI, when it wakes to call trumps, the room is
\* CALLING_TRUMPS and trump_caller is an AI, and it takes the decision without
\* an exception; and no two handlers stand in the delay at once.
C29_AIDecisions ==
    /\ [][/\ last'.op = "aiPlay" =>
               (state = PLAYING /\ IsAI(Room, current_player) /\ last'.err = "")
          /\ last'.op = "aiTrump" =>
               (state = CALLING_TRUMPS /\ IsAI(Room, trump_caller) /\ last'.err = "")]_vars
    /\ [](Cardinality(AILoops) <= 1)

\* C30: a participant is created only in a WAITING room and only while the
\* room has at most MAX_PLAYERS participants with it; and from the deal to
\* the round end (and to playAgain) players stays as it is.
C30_RosterFixed ==
    [][/\ Len(part') > Len(part) =>
            (state = WAITING /\ Len(players' \o spectators') <= MAX_PLAYERS)
       /\ (state \in {CALLING_TRUMPS, PLAYING} /\ last'.op \notin {"nextTrick", "playAgain"}) =>
            players' = players]_vars

\* The participant whose client holds socket ws: the Human for whom the token
\* was issued that the socket was given at create or join, or that it
\* presented in reconnect (NoPlayer: the socket has no entry in player_ws).
ClientOf(ws) ==
    IF \E j \in 1..Len(player_ws) : player_ws[j].ws = ws
    THEN Owner(player_ws[CHOOSE j \in 1..Len(player_ws) : player_ws[j].ws = ws].sid)
    ELSE NoPlayer
\* The hand of participant q as a snapshot lists it.
HandStrings(q) == [i \in 1..Len(part[q].hand) |-> CardStr(part[q].hand[i])]
\* C31: a message carries a hand only when it is a snapshot for an active
\* player, the hand it lists is the hand of the participant whose client
\* holds the socket it is sent to, and a snapshot sent to a spectator carries
\* no hand.
C31_OwnHandOnly ==
    \A i \in 1..Len(sent) :
        (sent[i].hand # NoHand /\ ClientOf(sent[i].to) # NoPlayer) =>
            /\ sent[i].type \in {"gameState", "gameCreated", "joined", "roundStart", "playAgainSuccess"}
            /\ InPlayers(ClientOf(sent[i].to))
            /\ sent[i].hand = HandStrings(ClientOf(sent[i].to))

\* Participant p holds a card that Game.validate_play accepts now.
HasLegalCard(p) ==
    \E i \in 1..Len(part[p].hand) : validate_play(Room, p, part[p].hand[i]) = ""
\* C32: in PLAYING, when the trick is empty all active players hold the same
\* number of cards, and while the trick is incomplete and the round is not
\* over the current player holds a card that passes the legal-play check.
C32_HandsInStep ==
    state = PLAYING =>
        /\ current_trick = <<>> =>
              \A i, j \in 1..Len(players) :
                  Len(part[players[i]].hand) = Len(part[players[j]].hand)
        /\ (Len(current_trick) < Len(players) /\ ~RoundOver) =>
              current_player # NoPlayer /\ HasLegalCard(current_player)

\* sum(p.tricks_won for p in ps)
RECURSIVE TricksWon(_)
TricksWon(ps) == IF Len(ps) = 0 THEN 0 ELSE part[ps[1]].tricks_won + TricksWon(Tail(ps))
\* C33: at a round end the tricks_won of the active players sum to
\* current_round and at least one player survives the elimination; the room
\* enters FINISHED with a gameOver message that names the one player left,
\* and while it is FINISHED players holds exactly one participant, who won a
\* trick in the last round.
C33_OneWinner ==
    /\ [][/\ (last'.op = "nextTrick" /\ RoundOver) =>
               /\ TricksWon(players) = current_round
               /\ Len(players') >= 1
          /\ (state # FINISHED /\ state' = FINISHED) =>
               /\ Len(players') = 1
               /\ \E i \in 1..Len(sent') :
                     sent'[i].type = "gameOver" /\ sent'[i].info = part'[players'[1]].name]_vars
    /\ [](state = FINISHED => (Len(players) = 1 /\ part[players[1]].tricks_won >= 1))

\* C34: every started game ends: while the game is on current_round is
\* within 1..7, a round of size N ends after exactly N tricks, and when the
\* human plays a legal card at each of its turns and no playAgain is sent
\* the room reaches FINISHED.
C34_Terminates ==
    /\ [](Started => current_round \in 1..FIRST_ROUND)
    /\ [][(last'.op = "nextTrick" /\ RoundOver) => TricksWon(players) = current_round]_vars
    /\ Started ~> (state = FINISHED)

=============================================================================
